---- MODULE Spec2Model ----
(***************************************************************************)
(* A model of cc-convo (src/cc-convo/src/main.rs): the record parser and   *)
(* event normalizer (parse_session_events and its helpers) and the search  *)
(* engine (search_sessions, cmd_search), the exporter (cmd_export and its   *)
(* renderers) and the session list (cmd_sessions_list, summarize_session). *)
(*                                                                         *)
(* Strings are sequences of characters; a character is a one-token TLA+    *)
(* string.  Rust's str::len and slicing count BYTES, so every character    *)
(* has a UTF-8 width (Width) and the slicing helpers work on byte offsets. *)
(* A slice at a byte offset inside a character panics in Rust: the model   *)
(* returns the one-token string Panic, which every caller propagates.      *)
(***************************************************************************)
EXTENDS Integers, Sequences, FiniteSets, TLC

VARIABLES
    file,          \* parse: the session file being read: [openable, lines]
    detailed,      \* parse: the detail flag of the current call
    pc,            \* parse: "idle" | "scan" | "ok" | "err" | "panic"
    pos,           \* parse: index of the next line reader.lines() yields
    events,        \* parse: the local Vec<NormalizedEvent>
    parse_errors,  \* parse: the local counter
    origin,        \* parse: history: origin[i] is the line that pushed events[i]
    returned,      \* parse: history: the outcome of the last finished call per detail flag
    dir,           \* search: the session files under the Claude directory
    args,          \* search: the SearchArgs of the last cmd_search
    spc,           \* search: "idle" | "ok" | "err" | "panic"
    hits,          \* search: the Vec<SearchHit> search_sessions returned
    scanned,       \* search: history: the number of session files search_sessions opened
    output,        \* search: the hits cmd_search prints
    xargs,         \* export: the ExportArgs of the last cmd_export
    xpc,           \* export: "idle" | "ok" | "err" | "panic"
    docs,          \* export: history: the ExportDocuments built, in session order
    bodies,        \* export: the bodies written with fs::write, in order
    total_parse_errors, \* export: the local counter
    lpc,           \* list: "idle" | "ok" | "err" | "panic"
    summaries,     \* list: the Vec<SessionSummary> cmd_sessions_list prints
    walk_errs,     \* list: history: the number of Err items the directory walk yielded
    global,        \* main: the time options of the last command: [since_hours, since_days]
    io,            \* main: history: the file-system operations of the last command, in order
    discovered,    \* main: the Vec<Session> discover_sessions returned
    selection,     \* export, show: the sessions selected
    output_files,  \* export: the paths written, in order: bodies[k] went to output_files[k]
    vargs,         \* show: the SessionsShowArgs of the last cmd_sessions_show
    vpc,           \* show: "idle" | "ok" | "err" | "panic"
    printed,       \* show: the events cmd_sessions_show prints
    targs,         \* xtask: the SchemaInventoryArgs of the last run_schema_inventory
    tpc,           \* xtask: "idle" | "ok" | "err"
    total_records  \* xtask: the local counter of run_schema_inventory

parseVars == <<file, detailed, pc, pos, events, parse_errors, origin, returned>>
searchVars == <<dir, args, spc, hits, scanned, output>>
exportVars == <<xargs, xpc, docs, bodies, total_parse_errors>>
listVars == <<lpc, summaries, walk_errs>>
mainVars == <<global, io, discovered, selection, output_files>>
showVars == <<vargs, vpc, printed>>
taskVars == <<targs, tpc, total_records>>
vars == <<file, detailed, pc, pos, events, parse_errors, origin, returned,
          dir, args, spc, hits, scanned, output,
          xargs, xpc, docs, bodies, total_parse_errors, lpc, summaries, walk_errs,
          global, io, discovered, selection, output_files, vargs, vpc, printed,
          targs, tpc, total_records>>

----------------------------------------------------------------------------
(* Bounds of the model *)

MaxLines == 2        \* lines per session file (multi-line files)
MaxBlocks == 2       \* content blocks per message.content array (one-line files)
MaxSessions == 2     \* session files under the Claude directory
MaxResults == 2      \* largest --max-results tried
LongLen == 1300      \* characters of the long strings (beyond every cap)

----------------------------------------------------------------------------
(* Characters and strings *)

Panic == <<"PANIC">>

\* UTF-8 width of a character: e_acute is U+00E9 (2 bytes), E_ACUTE U+00C9
\* (2 bytes), KELVIN the Kelvin sign U+212A (3 bytes, and its lowercase is the
\* one-byte "k"); every other character of the model is ASCII.
Width(c) ==
    IF c \in {"e_acute", "E_ACUTE"} THEN 2 ELSE IF c = "KELVIN" THEN 3 ELSE 1

\* char::to_lowercase
LowerChar(c) ==
    CASE c = "A" -> "a"
      [] c = "B" -> "b"
      [] c = "E_ACUTE" -> "e_acute"
      [] c = "KELVIN" -> "k"
      [] OTHER -> c

\* str::to_lowercase
ToLowercase(s) == [i \in 1..Len(s) |-> LowerChar(s[i])]

\* char::is_whitespace
IsWhitespace(c) == c \in {" ", "\n", "\t"}

\* s.trim().is_empty()
TrimIsEmpty(s) == \A i \in 1..Len(s) : IsWhitespace(s[i])

Panicked(s) == \E i \in 1..Len(s) : s[i] = "PANIC"

RECURSIVE ByteLenRange(_, _, _)
ByteLenRange(s, lo, hi) ==
    IF lo > hi THEN 0
    ELSE IF lo = hi THEN Width(s[lo])
    ELSE LET m == (lo + hi) \div 2
         IN  ByteLenRange(s, lo, m) + ByteLenRange(s, m + 1, hi)

\* str::len: the length in bytes
ByteLen(s) == ByteLenRange(s, 1, Len(s))

\* The number of leading whole characters of s[lo..hi] that fit in n bytes.
RECURSIVE CharsWithin(_, _, _, _)
CharsWithin(s, lo, hi, n) ==
    IF lo > hi THEN 0
    ELSE IF lo = hi THEN (IF Width(s[lo]) <= n THEN 1 ELSE 0)
    ELSE LET m == (lo + hi) \div 2
             l == ByteLenRange(s, lo, m)
         IN  IF l <= n THEN (m - lo + 1) + CharsWithin(s, m + 1, hi, n - l)
             ELSE CharsWithin(s, lo, m, n)

\* str::is_char_boundary(n)
IsCharBoundary(s, n) ==
    /\ n <= ByteLen(s)
    /\ ByteLenRange(s, 1, CharsWithin(s, 1, Len(s), n)) = n

\* &s[..n]: the first n bytes; a panic when n is not a character boundary
SliceTo(s, n) ==
    IF IsCharBoundary(s, n) THEN SubSeq(s, 1, CharsWithin(s, 1, Len(s), n))
    ELSE Panic

\* flattening a sequence of strings, by halves (the strings may be long)
RECURSIVE ConcatRange(_, _, _)
ConcatRange(ss, lo, hi) ==
    IF lo > hi THEN <<>>
    ELSE IF lo = hi THEN ss[lo]
    ELSE LET m == (lo + hi) \div 2
         IN  ConcatRange(ss, lo, m) \o ConcatRange(ss, m + 1, hi)

Concat(ss) == ConcatRange(ss, 1, Len(ss))

\* [String]::join(sep)
Join(parts, sep) ==
    Concat([i \in 1..(2 * Len(parts) - 1) |->
               IF i % 2 = 1 THEN parts[(i + 1) \div 2] ELSE sep])

\* the characters of a string literal
Chars(str) == [i \in 1..Len(str) |-> SubSeq(str, i, i)]

Nl == <<"\n">>
Dots == <<".", ".", ".">>

\* usize::saturating_sub
SaturatingSub(a, b) == IF a >= b THEN a - b ELSE 0

Ellipsize(s, max) ==
    IF ByteLen(s) <= max THEN s
    ELSE SliceTo(s, SaturatingSub(max, 3)) \o Dots

----------------------------------------------------------------------------
(* serde_json::Value.  A value is a record [k, s, items, fields]: k its    *)
(* kind, s the text of a string or number, items the elements of an array, *)
(* fields the members of an object in the map's iteration order.           *)

JNull == [k |-> "null", s |-> <<>>, items |-> <<>>, fields |-> <<>>]
JStr(s) == [k |-> "str", s |-> s, items |-> <<>>, fields |-> <<>>]
JNum(digits) == [k |-> "num", s |-> digits, items |-> <<>>, fields |-> <<>>]
JArr(items) == [k |-> "arr", s |-> <<>>, items |-> items, fields |-> <<>>]
JObj(fields) == [k |-> "obj", s |-> <<>>, items |-> <<>>, fields |-> fields]
Member(key, val) == [key |-> key, val |-> val]

\* Option<T>: <<>> is None, <<x>> is Some(x)
None == <<>>
Some(x) == <<x>>
IsSome(o) == o # <<>>
UnwrapOr(o, d) == IF o = <<>> THEN d ELSE o[1]

\* Value::get(key): None unless the value is an object with that member
Get(v, key) ==
    IF v.k = "obj" /\ \E i \in 1..Len(v.fields) : v.fields[i].key = key
    THEN Some(v.fields[CHOOSE i \in 1..Len(v.fields) : v.fields[i].key = key].val)
    ELSE None

\* Option<&Value>::and_then(Value::as_str)
AsStr(o) == IF o # <<>> /\ o[1].k = "str" THEN Some(o[1].s) ELSE None

\* Option<&Value>::and_then(|d| d.get(key))
AndThenGet(o, key) == IF o = <<>> THEN None ELSE Get(o[1], key)

\* a faulty variant of the escaping: the backslash written as it is
EscapeCharBackslashRaw(c) ==
    CASE c = "\"" -> <<"\\", "\"">>
      [] c = "\n" -> <<"\\", "n">>
      [] c = "\t" -> <<"\\", "t">>
      [] OTHER -> <<c>>

\* serde_json's string escaping
EscapeChar(c) ==
    CASE c = "\"" -> <<"\\", "\"">>
      [] c = "\\" -> <<"\\", "\\">>
      [] c = "\n" -> <<"\\", "n">>
      [] c = "\t" -> <<"\\", "t">>
      [] OTHER -> <<c>>

Quote(s) == <<"\"">> \o Concat([i \in 1..Len(s) |-> EscapeChar(s[i])]) \o <<"\"">>

\* serde_json::to_string
RECURSIVE ToJson(_)
ToJson(v) ==
    CASE v.k = "null" -> <<"n", "u", "l", "l">>
      [] v.k = "num" -> v.s
      [] v.k = "str" -> Quote(v.s)
      [] v.k = "arr" ->
            <<"[">> \o Join([i \in 1..Len(v.items) |-> ToJson(v.items[i])], <<",">>)
                    \o <<"]">>
      [] v.k = "obj" ->
            <<"{">> \o Join([i \in 1..Len(v.fields) |->
                               Quote(v.fields[i].key) \o <<":">>
                                   \o ToJson(v.fields[i].val)], <<",">>)
                    \o <<"}">>

Indent(n) == Concat([i \in 1..n |-> <<" ", " ">>])

\* serde_json::to_string_pretty: two-space indentation, "key": value
RECURSIVE Pretty(_, _)
Pretty(v, n) ==
    CASE v.k = "arr" /\ v.items # <<>> ->
            <<"[", "\n">>
                \o Join([i \in 1..Len(v.items) |->
                            Indent(n + 1) \o Pretty(v.items[i], n + 1)], <<",", "\n">>)
                \o Nl \o Indent(n) \o <<"]">>
      [] v.k = "obj" /\ v.fields # <<>> ->
            <<"{", "\n">>
                \o Join([i \in 1..Len(v.fields) |->
                            Indent(n + 1) \o Quote(v.fields[i].key) \o <<":", " ">>
                                \o Pretty(v.fields[i].val, n + 1)], <<",", "\n">>)
                \o Nl \o Indent(n) \o <<"}">>
      [] OTHER -> ToJson(v)

ToJsonPretty(v) == Pretty(v, 0)

\* truncate_value
TruncateValue(v, max) == Ellipsize(ToJson(v), max)

----------------------------------------------------------------------------
(* The string literals of the parser *)

S_type == <<"t", "y", "p", "e">>
S_timestamp == <<"t", "i", "m", "e", "s", "t", "a", "m", "p">>
S_message == <<"m", "e", "s", "s", "a", "g", "e">>
S_content == <<"c", "o", "n", "t", "e", "n", "t">>
S_text == <<"t", "e", "x", "t">>
S_thinking == <<"t", "h", "i", "n", "k", "i", "n", "g">>
S_name == <<"n", "a", "m", "e">>
S_input == <<"i", "n", "p", "u", "t">>
S_tool_use_id == <<"t", "o", "o", "l", "_", "u", "s", "e", "_", "i", "d">>
S_data == <<"d", "a", "t", "a">>
S_hookName == <<"h", "o", "o", "k", "N", "a", "m", "e">>
S_command == <<"c", "o", "m", "m", "a", "n", "d">>
S_subtype == <<"s", "u", "b", "t", "y", "p", "e">>
S_operation == <<"o", "p", "e", "r", "a", "t", "i", "o", "n">>
S_user == <<"u", "s", "e", "r">>
S_assistant == <<"a", "s", "s", "i", "s", "t", "a", "n", "t">>
S_system == <<"s", "y", "s", "t", "e", "m">>
S_progress == <<"p", "r", "o", "g", "r", "e", "s", "s">>
S_queue_operation == <<"q", "u", "e", "u", "e", "-", "o", "p", "e", "r", "a", "t", "i", "o", "n">>
S_file_history_snapshot == <<"f", "i", "l", "e", "-", "h", "i", "s", "t", "o", "r", "y", "-", "s", "n", "a", "p", "s", "h", "o", "t">>
S_unknown == <<"u", "n", "k", "n", "o", "w", "n">>
S_tool_use == <<"t", "o", "o", "l", "_", "u", "s", "e">>
S_tool_result == <<"t", "o", "o", "l", "_", "r", "e", "s", "u", "l", "t">>
S_image == <<"i", "m", "a", "g", "e">>
S_document == <<"d", "o", "c", "u", "m", "e", "n", "t">>
S_thinking_tag == <<"[", "t", "h", "i", "n", "k", "i", "n", "g", "]", "\n">>
S_tool_use_tag == <<"[", "t", "o", "o", "l", "_", "u", "s", "e", "]", " ">>
S_tool_result_tag == <<"[", "t", "o", "o", "l", "_", "r", "e", "s", "u", "l", "t", "]", " ">>
S_image_omitted == <<"[", "i", "m", "a", "g", "e", " ", "o", "m", "i", "t", "t", "e", "d", "]">>
S_document_omitted == <<"[", "d", "o", "c", "u", "m", "e", "n", "t", " ", "o", "m", "i", "t", "t", "e", "d", "]">>
S_progress_colon == <<"p", "r", "o", "g", "r", "e", "s", "s", ":">>
S_hook_eq == <<" ", "h", "o", "o", "k", "=">>
S_cmd_eq == <<" ", "c", "m", "d", "=">>
S_system_colon == <<"s", "y", "s", "t", "e", "m", ":">>
S_queue_operation_colon == <<"q", "u", "e", "u", "e", "-", "o", "p", "e", "r", "a", "t", "i", "o", "n", ":">>

----------------------------------------------------------------------------
(* Record parser *)

\* The Vec<String> `parts` after the block `item` is visited (lines 891-931)
BlockParts(item, det) ==
    IF item.k = "obj" THEN
        LET item_type == UnwrapOr(AsStr(Get(item, S_type)), <<>>)
        IN  CASE item_type = S_text ->
                    LET txt == AsStr(Get(item, S_text))
                    IN  IF IsSome(txt) THEN <<txt[1]>> ELSE <<>>
              [] item_type = S_thinking /\ det ->
                    << S_thinking_tag \o UnwrapOr(AsStr(Get(item, S_thinking)), <<>>) >>
              [] item_type = S_tool_use /\ det ->
                    LET name == UnwrapOr(AsStr(Get(item, S_name)), S_unknown)
                        input == UnwrapOr(Get(item, S_input), JObj(<<>>))
                    IN  << S_tool_use_tag \o name \o Nl \o ToJsonPretty(input) >>
              [] item_type = S_tool_result /\ det ->
                    LET tool_use_id == UnwrapOr(AsStr(Get(item, S_tool_use_id)), S_unknown)
                        result_content == UnwrapOr(Get(item, S_content), JNull)
                    IN  << S_tool_result_tag \o tool_use_id \o Nl
                               \o TruncateValue(result_content, 1200) >>
              [] item_type = S_image /\ det -> << S_image_omitted >>
              [] item_type = S_document /\ det -> << S_document_omitted >>
              [] OTHER -> <<>>
    ELSE IF item.k = "str" THEN << item.s >>
    ELSE <<>>

\* `parts` after the loop over the array (lines 889-932)
RECURSIVE ContentParts(_, _)
ContentParts(arr, det) ==
    IF arr = <<>> THEN <<>>
    ELSE ContentParts(SubSeq(arr, 1, Len(arr) - 1), det)
             \o BlockParts(arr[Len(arr)], det)

\* a faulty variant of extract_content_text: the parts joined by spaces
ExtractContentTextSpaceJoin(content, det) ==
    IF content.k = "str" THEN content.s
    ELSE IF content.k = "arr" THEN Join(ContentParts(content.items, det), <<" ">>)
    ELSE TruncateValue(content, 1200)

\* extract_content_text
ExtractContentText(content, det) ==
    IF content.k = "str" THEN content.s
    ELSE IF content.k = "arr" THEN Join(ContentParts(content.items, det), Nl)
    ELSE TruncateValue(content, 1200)

\* extract_message_text
ExtractMessageText(record, det) ==
    IF Get(record, S_message) = None THEN <<>>
    ELSE IF AndThenGet(Get(record, S_message), S_content) = None THEN <<>>
    ELSE ExtractContentText(AndThenGet(Get(record, S_message), S_content)[1], det)

\* summarize_non_dialog_record
SummarizeNonDialogRecord(value) ==
    LET record_type == UnwrapOr(AsStr(Get(value, S_type)), S_unknown)
    IN  CASE record_type = S_progress ->
                LET data == Get(value, S_data)
                    ptype == UnwrapOr(AsStr(AndThenGet(data, S_type)), S_unknown)
                    hook == UnwrapOr(AsStr(AndThenGet(data, S_hookName)), <<>>)
                    cmd == UnwrapOr(AsStr(AndThenGet(data, S_command)), <<>>)
                IN  S_progress_colon \o ptype
                        \o (IF hook # <<>> THEN S_hook_eq \o hook ELSE <<>>)
                        \o (IF cmd # <<>> THEN S_cmd_eq \o Ellipsize(cmd, 120) ELSE <<>>)
          [] record_type = S_system ->
                S_system_colon \o UnwrapOr(AsStr(Get(value, S_subtype)), S_unknown)
          [] record_type = S_queue_operation ->
                S_queue_operation_colon
                    \o UnwrapOr(AsStr(Get(value, S_operation)), S_unknown)
          [] record_type = S_file_history_snapshot -> S_file_history_snapshot
          [] OTHER -> TruncateValue(value, 300)

\* struct NormalizedEvent
NormalizedEvent(role, source_type, timestamp, content) ==
    [role |-> role, source_type |-> source_type, timestamp |-> timestamp,
     content |-> content]

IsDialogType(t) == t \in {S_user, S_assistant}
IsNonDialogType(t) ==
    t \in {S_system, S_progress, S_queue_operation, S_file_history_snapshot}

\* the "user" and "assistant" arms: the event is pushed unless the text is blank
DialogEvents(record_type, timestamp, text) ==
    IF ~TrimIsEmpty(text)
    THEN << NormalizedEvent(record_type, record_type, timestamp, text) >>
    ELSE <<>>

\* a faulty variant of the match on record_type: no test of text.trim()
LineEventsNoTrimCheck(value, det) ==
    LET record_type == UnwrapOr(AsStr(Get(value, S_type)), S_unknown)
        timestamp == AsStr(Get(value, S_timestamp))
    IN  IF IsDialogType(record_type) THEN
            << NormalizedEvent(record_type, record_type, timestamp,
                               ExtractMessageText(value, det)) >>
        ELSE IF IsNonDialogType(record_type) THEN
            IF det
            THEN << NormalizedEvent(record_type, record_type, timestamp,
                                    SummarizeNonDialogRecord(value)) >>
            ELSE <<>>
        ELSE IF det
             THEN << NormalizedEvent(record_type, record_type, timestamp,
                                     TruncateValue(value, 500)) >>
             ELSE <<>>

\* The events one successfully parsed record pushes: the match on record_type
\* of parse_session_events (lines 812-865); none or one.
LineEvents(value, det) ==
    LET record_type == UnwrapOr(AsStr(Get(value, S_type)), S_unknown)
        timestamp == AsStr(Get(value, S_timestamp))
    IN  IF IsDialogType(record_type) THEN
            DialogEvents(record_type, timestamp, ExtractMessageText(value, det))
        ELSE IF IsNonDialogType(record_type) THEN
            IF det
            THEN << NormalizedEvent(record_type, record_type, timestamp,
                                    SummarizeNonDialogRecord(value)) >>
            ELSE <<>>
        ELSE IF det
             THEN << NormalizedEvent(record_type, record_type, timestamp,
                                     TruncateValue(value, 500)) >>
             ELSE <<>>

----------------------------------------------------------------------------
(* Event normalizer: parse_session_events *)

\* A line of a session file as reader.lines() yields it: kind "ioerr" is an
\* Err item (a failed read, or bytes that are not UTF-8), "blank" a line that is
\* empty after trim, "bad" a non-blank line serde_json rejects, "json" a line
\* that parses to `value`.
Line(kind, value) == [kind |-> kind, value |-> value]

\* The locals of parse_session_events
ScanState(status, evs, errs) == [status |-> status, events |-> evs, parse_errors |-> errs]

\* Result<ParseOutput>: Err and a panic carry no ParseOutput
ParseErr == ScanState("err", <<>>, 0)
ParsePanic == ScanState("panic", <<>>, 0)
NotCalled == ScanState("none", <<>>, 0)

\* a faulty variant of events.push: the event put at the front
PushFront(evs, new) == new \o evs

\* events.push(..), for the none or one event of a record
Push(evs, new) == evs \o new

\* a record's events are pushed, unless computing them panicked
PushOrPanic(st, new) ==
    IF new # <<>> /\ Panicked(new[1].content) THEN ParsePanic
    ELSE [st EXCEPT !.events = Push(st.events, new)]

\* a faulty variant of the loop body: a line that is not JSON ends the call
ScanLineStopOnBad(st, line, det) ==
    CASE line.kind = "ioerr" -> ParseErr
      [] line.kind = "blank" -> st
      [] line.kind = "bad" -> ParseErr
      [] OTHER -> PushOrPanic(st, LineEvents(line.value, det))

\* a faulty variant of the loop body: a line that cannot be read is counted
\* and skipped
ScanLineSkipUnread(st, line, det) ==
    CASE line.kind = "ioerr" -> [st EXCEPT !.parse_errors = st.parse_errors + 1]
      [] line.kind = "blank" -> st
      [] line.kind = "bad" -> [st EXCEPT !.parse_errors = st.parse_errors + 1]
      [] OTHER -> PushOrPanic(st, LineEvents(line.value, det))

\* One iteration of the loop over reader.lines() (lines 800-866)
ScanLine(st, line, det) ==
    CASE line.kind = "ioerr" -> ParseErr
      [] line.kind = "blank" -> st
      [] line.kind = "bad" -> [st EXCEPT !.parse_errors = st.parse_errors + 1]
      [] OTHER -> PushOrPanic(st, LineEvents(line.value, det))

RECURSIVE ScanFrom(_, _, _, _)
ScanFrom(f, det, i, st) ==
    IF st.status # "scan" THEN st
    ELSE IF i > Len(f.lines) THEN [st EXCEPT !.status = "ok"]
    ELSE ScanFrom(f, det, i + 1, ScanLine(st, f.lines[i], det))

\* parse_session_events as a function of the file's content: what a caller gets
ParseSessionEvents(f, det) ==
    IF ~f.openable THEN ParseErr
    ELSE ScanFrom(f, det, 1, ScanState("scan", <<>>, 0))

\* File::open and the locals' initialisation (lines 795-798)
Open(d) ==
    /\ pc \in {"idle", "ok", "err", "panic"}
    /\ returned[d].status = "none"
    /\ detailed' = d
    /\ IF file.openable
       THEN /\ pc' = "scan"
            /\ returned' = returned
       ELSE /\ pc' = "err"
            /\ returned' = [returned EXCEPT ![d] = ParseErr]
    /\ pos' = 1
    /\ events' = <<>>
    /\ parse_errors' = 0
    /\ origin' = <<>>
    /\ UNCHANGED <<file, searchVars, exportVars, listVars, mainVars, showVars, taskVars>>

\* One iteration of `for line in reader.lines()`
ReadLineTo(st) ==
    /\ pc' = st.status
    /\ events' = st.events
    /\ parse_errors' = st.parse_errors
    /\ origin' = IF Len(st.events) > Len(events) THEN Append(origin, pos) ELSE origin
    /\ returned' = IF st.status = "scan" THEN returned
                   ELSE [returned EXCEPT ![detailed] = st]

ReadLine ==
    /\ pc = "scan"
    /\ pos <= Len(file.lines)
    /\ ReadLineTo(ScanLine(ScanState("scan", events, parse_errors), file.lines[pos],
                           detailed))
    /\ pos' = pos + 1
    /\ UNCHANGED <<file, detailed, searchVars, exportVars, listVars, mainVars, showVars,
                   taskVars>>

\* Ok(ParseOutput { events, parse_errors }) at the end of the file
Return ==
    /\ pc = "scan"
    /\ pos > Len(file.lines)
    /\ pc' = "ok"
    /\ returned' = [returned EXCEPT ![detailed] = ScanState("ok", events, parse_errors)]
    /\ UNCHANGED <<file, detailed, pos, events, parse_errors, origin, searchVars,
                   exportVars, listVars, mainVars, showVars, taskVars>>

NextParse == (\E d \in BOOLEAN : Open(d)) \/ ReadLine \/ Return

----------------------------------------------------------------------------
(* Strings as the search engine uses them *)

Min(a, b) == IF a <= b THEN a ELSE b

\* str::contains(needle)
Contains(hay, needle) ==
    \E i \in 1..(Len(hay) - Len(needle) + 1) : SubSeq(hay, i, i + Len(needle) - 1) = needle

\* str::find(needle): the BYTE offset of the first occurrence
Find(hay, needle) ==
    IF Contains(hay, needle)
    THEN LET i == CHOOSE i \in 1..(Len(hay) - Len(needle) + 1) :
                     /\ SubSeq(hay, i, i + Len(needle) - 1) = needle
                     /\ \A j \in 1..(i - 1) : SubSeq(hay, j, j + Len(needle) - 1) # needle
         IN  Some(ByteLenRange(hay, 1, i - 1))
    ELSE None

\* a faulty variant of matches(..).count(): one for any number of occurrences
MatchesCountAtMostOne(hay, needle) == IF Contains(hay, needle) THEN 1 ELSE 0

\* str::matches(needle).count(): the occurrences found scanning left to right,
\* each search resuming after the previous match; the empty needle matches at
\* every character boundary
RECURSIVE MatchesFrom(_, _, _)
MatchesFrom(hay, needle, i) ==
    IF i + Len(needle) - 1 > Len(hay) THEN 0
    ELSE IF SubSeq(hay, i, i + Len(needle) - 1) = needle
         THEN 1 + MatchesFrom(hay, needle, i + Len(needle))
         ELSE MatchesFrom(hay, needle, i + 1)

MatchesCount(hay, needle) ==
    IF needle = <<>> THEN Len(hay) + 1 ELSE MatchesFrom(hay, needle, 1)

\* str::split_whitespace().collect()
RECURSIVE SplitWhitespace(_)
SplitWhitespace(s) ==
    IF s = <<>> THEN <<>>
    ELSE IF IsWhitespace(s[1]) THEN SplitWhitespace(Tail(s))
    ELSE LET n == IF \E i \in 1..Len(s) : IsWhitespace(s[i])
                  THEN (CHOOSE i \in 1..Len(s) :
                           /\ IsWhitespace(s[i])
                           /\ \A j \in 1..(i - 1) : ~IsWhitespace(s[j])) - 1
                  ELSE Len(s)
         IN  <<SubSeq(s, 1, n)>> \o SplitWhitespace(SubSeq(s, n + 1, Len(s)))

\* str::replace('\n', " ")
ReplaceNewlines(s) == [i \in 1..Len(s) |-> IF s[i] = "\n" THEN " " ELSE s[i]]

\* str::get(start..end): None unless start <= end <= len and both are
\* character boundaries
GetSlice(s, start, end) ==
    IF start <= end /\ IsCharBoundary(s, start) /\ IsCharBoundary(s, end)
    THEN Some(SubSeq(s, CharsWithin(s, 1, Len(s), start) + 1,
                     CharsWithin(s, 1, Len(s), end)))
    ELSE None

\* The Unicode scalar value of a character: the order of str::cmp
Code(c) ==
    CASE c = "a" -> 97 [] c = "b" -> 98 [] c = "p" -> 112 [] c = "q" -> 113
      [] OTHER -> 0

\* a < b for strings (Ord for str: lexicographic)
RECURSIVE StrLess(_, _)
StrLess(a, b) ==
    IF b = <<>> THEN FALSE
    ELSE IF a = <<>> THEN TRUE
    ELSE IF Code(a[1]) # Code(b[1]) THEN Code(a[1]) < Code(b[1])
    ELSE StrLess(Tail(a), Tail(b))

\* build_context_preview
BuildContextPreview(text, query, context_chars, case_sensitive) ==
    LET hay == IF case_sensitive THEN text ELSE ToLowercase(text)
        needle == IF case_sensitive THEN query ELSE ToLowercase(query)
        found == Find(hay, needle)
    IN  IF IsSome(found) THEN
            LET p == found[1]
                start == SaturatingSub(p, context_chars)
                end == Min(p + ByteLen(needle) + context_chars, ByteLen(text))
                slice == UnwrapOr(GetSlice(text, start, end), text)
            IN  ReplaceNewlines((IF start > 0 THEN Dots ELSE <<>>)
                                    \o slice
                                    \o (IF end < ByteLen(text) THEN Dots ELSE <<>>))
        ELSE Ellipsize(ReplaceNewlines(text), context_chars * 2)

----------------------------------------------------------------------------
(* Session discovery *)

\* A directory entry: a .jsonl file at <project>/<stem>.jsonl
Entry(project, stem, mtime, f) ==
    [project |-> project, stem |-> stem, mtime |-> mtime, file |-> f]

\* short_id
ShortId(full) == SubSeq(full, 1, Min(8, Len(full)))

\* usize as Display prints it
RECURSIVE ToDecimal(_)
ToDecimal(n) ==
    IF n < 10 THEN SubSeq(Chars("0123456789"), n + 1, n + 1)
    ELSE ToDecimal(n \div 10) \o SubSeq(Chars("0123456789"), (n % 10) + 1, (n % 10) + 1)

\* to_rfc3339_opts(SecondsFormat::Secs, true) of a modification time of less
\* than ten seconds after the epoch
ModifiedIso(mtime) == Chars("1970-01-01T00:00:0") \o ToDecimal(mtime) \o <<"Z">>

\* struct Session, before its index is assigned
SessionOf(e) ==
    [index |-> 0, id |-> e.stem, id_short |-> ShortId(e.stem), project |-> e.project,
     path |-> <<e.project, e.stem>>, modified_iso |-> ModifiedIso(e.mtime),
     modified_epoch |-> e.mtime]

PathLess(a, b) == StrLess(a[1], b[1]) \/ (a[1] = b[1] /\ StrLess(a[2], b[2]))

\* a faulty variant of the sort key: the modification time alone
SessionBeforeNoTieBreak(a, b) == a.modified_epoch > b.modified_epoch

\* the sort key (Reverse(modified_epoch), path)
SessionBefore(a, b) ==
    \/ a.modified_epoch > b.modified_epoch
    \/ a.modified_epoch = b.modified_epoch /\ PathLess(a.path, b.path)

\* sessions.sort_by_key: a stable sort; x is inserted before the first element
\* it is strictly before
InsertSession(sorted, x) ==
    LET k == IF \E j \in 1..Len(sorted) : SessionBefore(x, sorted[j])
             THEN CHOOSE j \in 1..Len(sorted) :
                      /\ SessionBefore(x, sorted[j])
                      /\ \A i \in 1..(j - 1) : ~SessionBefore(x, sorted[i])
             ELSE Len(sorted) + 1
    IN  SubSeq(sorted, 1, k - 1) \o <<x>> \o SubSeq(sorted, k, Len(sorted))

RECURSIVE SortSessions(_)
SortSessions(xs) ==
    IF xs = <<>> THEN <<>>
    ELSE InsertSession(SortSessions(SubSeq(xs, 1, Len(xs) - 1)), xs[Len(xs)])

\* discover_sessions: the sessions sorted, then indexed from 1
DiscoverSessions(d) ==
    LET sorted == SortSessions([i \in 1..Len(d) |-> SessionOf(d[i])])
    IN  [i \in 1..Len(sorted) |-> [sorted[i] EXCEPT !.index = i]]

\* the content of the file at a path
FileAt(d, path) ==
    (CHOOSE e \in {d[i] : i \in 1..Len(d)} : <<e.project, e.stem>> = path).file

----------------------------------------------------------------------------
(* Search engine.  A relevance is a multiple of 1/Scale: 1.0 is Scale.     *)

Scale == 6 * 1000
Tenth == Scale \div 10

\* RegexBuilder::build: the model's patterns are literal characters and "."
\* (any character but a newline); "(" opens a group that nothing closes, which
\* the regex crate rejects
RegexCompiles(pattern) == \A i \in 1..Len(pattern) : pattern[i] # "("

RegexMatchesAt(pattern, insensitive, text, i) ==
    \A j \in 1..Len(pattern) :
        \/ pattern[j] = "." /\ text[i + j - 1] # "\n"
        \/ pattern[j] = text[i + j - 1]
        \/ insensitive /\ LowerChar(pattern[j]) = LowerChar(text[i + j - 1])

\* Regex::find(text).is_some()
RegexFinds(pattern, insensitive, text) ==
    \E i \in 1..(Len(text) - Len(pattern) + 1) :
        RegexMatchesAt(pattern, insensitive, text, i)

\* a faulty variant of the exact score: no .min(1.0)
ExactRelevanceNoCap(count) == 5 * Tenth + count * Tenth

\* (0.5 + (count * 0.1)).min(1.0)
ExactRelevance(count) == Min(5 * Tenth + count * Tenth, Scale)

\* a faulty variant of the smart score: 0.6 as soon as one token is found
SmartScoreAnyToken(haystack, query_normalized, query_tokens) ==
    (IF \E i \in 1..Len(query_tokens) : Contains(haystack, query_tokens[i])
     THEN 6 * Tenth ELSE 0)
    + (IF query_tokens # <<>>
       THEN (Cardinality({i \in 1..Len(query_tokens) :
                             Contains(haystack, query_tokens[i])}) * 4 * Tenth)
                \div Len(query_tokens)
       ELSE 0)

\* the smart score before the cap: 0.6 for the whole query, 0.4 times the
\* fraction of the tokens found
SmartScore(haystack, query_normalized, query_tokens) ==
    (IF Contains(haystack, query_normalized) THEN 6 * Tenth ELSE 0)
    + (IF query_tokens # <<>>
       THEN (Cardinality({i \in 1..Len(query_tokens) :
                             Contains(haystack, query_tokens[i])}) * 4 * Tenth)
                \div Len(query_tokens)
       ELSE 0)

\* score > 0.15 (line 1058), as the f64 arithmetic decides it.  The f64 sum
\* differs from the exact one by a few units in the last place, so the two
\* comparisons can differ only where the exact score is 0.15: the whole query
\* not found and 3 of every 8 tokens found.  There overlap / len is 0.375
\* exactly, the nearest f64 to 0.4 is 3602879701896397 / 2^53, the product
\* 10808639105689191 / 2^56 lies midway between two f64 and rounds to the even
\* one, 0.15000000000000002, which is above the f64 of the literal 0.15
\* (0.1499999999999999944).  The relevance of such a hit is kept to the nearest
\* 1 / Scale.
SmartMatched(haystack, query_normalized, query_tokens) ==
    \/ SmartScore(haystack, query_normalized, query_tokens) * 100 > 15 * Scale
    \/ /\ ~Contains(haystack, query_normalized)
       /\ query_tokens # <<>>
       /\ 8 * Cardinality({i \in 1..Len(query_tokens) :
                               Contains(haystack, query_tokens[i])})
             = 3 * Len(query_tokens)

\* the match on args.mode (lines 1028-1060): <<matched, relevance>>
MatchAndScore(a, event) ==
    LET query_normalized == IF a.case_sensitive THEN a.query ELSE ToLowercase(a.query)
        query_tokens == SplitWhitespace(query_normalized)
        haystack == IF a.case_sensitive THEN event.content
                    ELSE ToLowercase(event.content)
    IN  CASE a.mode = "exact" ->
                IF Contains(haystack, query_normalized)
                THEN <<TRUE, ExactRelevance(MatchesCount(haystack, query_normalized))>>
                ELSE <<FALSE, 0>>
          [] a.mode = "regex" ->
                IF RegexFinds(a.query, ~a.case_sensitive, event.content)
                THEN <<TRUE, 8 * Tenth>>
                ELSE <<FALSE, 0>>
          [] OTHER ->
                <<SmartMatched(haystack, query_normalized, query_tokens),
                  Min(SmartScore(haystack, query_normalized, query_tokens), Scale)>>

\* the speaker filter (lines 1014-1021): TRUE when the event is kept
SpeakerKeeps(speaker, event) ==
    ~(speaker # "both"
        /\ \/ speaker = "user" /\ event.role # S_user
           \/ speaker = "assistant" /\ event.role # S_assistant)

\* struct SearchHit
SearchHit(session, event, relevance, preview) ==
    [session_id |-> session.id, project |-> session.project, path |-> session.path,
     speaker |-> event.role, timestamp |-> event.timestamp, relevance |-> relevance,
     preview |-> preview]

\* the hits one event adds (lines 1013-1078): none or one
HitIfMatched(session, a, event, m) ==
    IF m[1]
    THEN <<SearchHit(session, event, m[2],
                     BuildContextPreview(event.content, a.query, a.context_chars,
                                         a.case_sensitive))>>
    ELSE <<>>

\* a faulty variant of the loop body: the speaker filter after the match and
\* the preview
EventHitsFilterLast(session, a, event) ==
    IF \E k \in 1..Len(HitIfMatched(session, a, event, MatchAndScore(a, event))) :
           Panicked(HitIfMatched(session, a, event, MatchAndScore(a, event))[k].preview)
    THEN HitIfMatched(session, a, event, MatchAndScore(a, event))
    ELSE IF ~SpeakerKeeps(a.speaker, event) THEN <<>>
    ELSE HitIfMatched(session, a, event, MatchAndScore(a, event))

EventHits(session, a, event) ==
    IF ~SpeakerKeeps(a.speaker, event) THEN <<>>
    ELSE HitIfMatched(session, a, event, MatchAndScore(a, event))

RECURSIVE EventsHits(_, _, _)
EventsHits(session, a, evs) ==
    IF evs = <<>> THEN <<>>
    ELSE EventsHits(session, a, SubSeq(evs, 1, Len(evs) - 1))
             \o EventHits(session, a, evs[Len(evs)])

SearchResult(status, hs, n) == [status |-> status, hits |-> hs, scanned |-> n]

\* a faulty variant of the call of the parser: the detail level is on
ParseForSearchDetailed(f) == ParseSessionEvents(f, TRUE)

\* parse_session_events(&session.path, false) (line 1012)
ParseForSearch(f) == ParseSessionEvents(f, FALSE)

\* the loop over the sessions (lines 1010-1080): the hits pushed, or the error
\* of the first session that cannot be parsed
RECURSIVE ScanSessions(_, _, _, _, _)
AddHits(d, sessions, a, i, acc, new) ==
    IF \E k \in 1..Len(new) : Panicked(new[k].preview) THEN SearchResult("panic", <<>>, i)
    ELSE ScanSessions(d, sessions, a, i + 1, acc \o new)

AddParsed(d, sessions, a, i, acc, parsed) ==
    IF parsed.status # "ok" THEN SearchResult(parsed.status, <<>>, i)
    ELSE AddHits(d, sessions, a, i, acc, EventsHits(sessions[i], a, parsed.events))

ScanSessions(d, sessions, a, i, acc) ==
    IF i > Len(sessions) THEN SearchResult("ok", acc, Len(sessions))
    ELSE AddParsed(d, sessions, a, i, acc, ParseForSearch(FileAt(d, sessions[i].path)))

\* a faulty variant of the comparator: no .then_with on the session id
HitBeforeNoTieBreak(x, y) == x.relevance > y.relevance

\* the comparator of hits.sort_by (lines 1082-1087)
HitBefore(x, y) ==
    \/ x.relevance > y.relevance
    \/ x.relevance = y.relevance /\ StrLess(x.session_id, y.session_id)

\* hits.sort_by: a stable sort; x is inserted before the first element it is
\* strictly before
InsertHit(sorted, x) ==
    LET k == IF \E j \in 1..Len(sorted) : HitBefore(x, sorted[j])
             THEN CHOOSE j \in 1..Len(sorted) :
                      /\ HitBefore(x, sorted[j])
                      /\ \A i \in 1..(j - 1) : ~HitBefore(x, sorted[i])
             ELSE Len(sorted) + 1
    IN  SubSeq(sorted, 1, k - 1) \o <<x>> \o SubSeq(sorted, k, Len(sorted))

RECURSIVE SortHits(_)
SortHits(xs) ==
    IF xs = <<>> THEN <<>>
    ELSE InsertHit(SortHits(SubSeq(xs, 1, Len(xs) - 1)), xs[Len(xs)])

\* a faulty variant of search_sessions: the pattern compiled after the scan
SearchSessionsCompileLate(d, sessions, a) ==
    IF a.mode = "regex" /\ ~RegexCompiles(a.query)
    THEN SearchResult("err", <<>>, ScanSessions(d, sessions, a, 1, <<>>).scanned)
    ELSE IF ScanSessions(d, sessions, a, 1, <<>>).status # "ok"
         THEN ScanSessions(d, sessions, a, 1, <<>>)
         ELSE SearchResult("ok", SortHits(ScanSessions(d, sessions, a, 1, <<>>).hits),
                           Len(sessions))

\* search_sessions
SortedResult(found) ==
    IF found.status # "ok" THEN found
    ELSE SearchResult("ok", SortHits(found.hits), found.scanned)

SearchSessions(d, sessions, a) ==
    IF a.mode = "regex" /\ ~RegexCompiles(a.query) THEN SearchResult("err", <<>>, 0)
    ELSE SortedResult(ScanSessions(d, sessions, a, 1, <<>>))

\* Iterator::take(n)
Take(xs, n) == SubSeq(xs, 1, Min(n, Len(xs)))

SearchArgs(query, mode, speaker, case_sensitive, max_results, context_chars) ==
    [query |-> query, mode |-> mode, speaker |-> speaker,
     case_sensitive |-> case_sensitive, max_results |-> max_results,
     context_chars |-> context_chars]

\* cmd_search: discover the sessions, search them, keep the first max_results
CmdSearchTo(a, found) ==
    /\ spc' = found.status
    /\ hits' = found.hits
    /\ scanned' = found.scanned
    /\ output' = Take(found.hits, a.max_results)

CmdSearch(query, mode, speaker, case_sensitive, max_results, context_chars) ==
    /\ spc = "idle"
    /\ args' = SearchArgs(query, mode, speaker, case_sensitive, max_results, context_chars)
    /\ CmdSearchTo(args', SearchSessions(dir, DiscoverSessions(dir), args'))
    /\ UNCHANGED <<dir, parseVars, exportVars, listVars, mainVars, showVars, taskVars>>

----------------------------------------------------------------------------
(* Session list: cmd_sessions_list and summarize_session *)

\* str::trim
Trim(s) ==
    LET kept == {i \in 1..Len(s) : ~IsWhitespace(s[i])}
    IN  IF kept = {} THEN <<>>
        ELSE SubSeq(s, CHOOSE i \in kept : \A j \in kept : i <= j,
                    CHOOSE i \in kept : \A j \in kept : i >= j)

\* clean_preview
CleanPreview(s) == Ellipsize(Trim(ReplaceNewlines(s)), 140)

\* the locals of summarize_session: there is no count of the lines that are
\* not JSON
SummaryState(status, user, assistant, other, preview) ==
    [status |-> status, user_messages |-> user, assistant_messages |-> assistant,
     other_records |-> other, preview |-> preview]

\* the preview after a user record (lines 774-779)
PreviewAfter(st, with_preview, p) ==
    IF with_preview /\ st.preview = None /\ ~TrimIsEmpty(p)
    THEN Some(CleanPreview(p))
    ELSE st.preview

UserLine(st, preview) ==
    IF preview # None /\ Panicked(preview[1])
    THEN [st EXCEPT !.status = "panic"]
    ELSE [st EXCEPT !.user_messages = @ + 1, !.preview = preview]

\* One iteration of the loop over reader.lines() (lines 761-783)
SummarizeLine(st, line, with_preview) ==
    CASE line.kind = "ioerr" -> [st EXCEPT !.status = "err"]
      [] line.kind = "blank" -> st
      [] line.kind = "bad" -> st
      [] OTHER ->
            IF AsStr(Get(line.value, S_type)) = Some(S_user)
            THEN IF with_preview /\ st.preview = None
                    /\ Panicked(ExtractMessageText(line.value, FALSE))
                 THEN [st EXCEPT !.status = "panic"]
                 ELSE UserLine(st, PreviewAfter(st, with_preview,
                                                ExtractMessageText(line.value, FALSE)))
            ELSE IF AsStr(Get(line.value, S_type)) = Some(S_assistant)
            THEN [st EXCEPT !.assistant_messages = @ + 1]
            ELSE [st EXCEPT !.other_records = @ + 1]

RECURSIVE SummarizeFrom(_, _, _, _)
SummarizeFrom(f, with_preview, i, st) ==
    IF st.status # "scan" THEN st
    ELSE IF i > Len(f.lines) THEN [st EXCEPT !.status = "ok"]
    ELSE SummarizeFrom(f, with_preview, i + 1, SummarizeLine(st, f.lines[i], with_preview))

\* summarize_session as a function of the file's content
SummarizeSession(f, with_preview) ==
    IF ~f.openable THEN SummaryState("err", 0, 0, 0, None)
    ELSE SummarizeFrom(f, with_preview, 1, SummaryState("scan", 0, 0, 0, None))

\* .filter_map(|e| e.ok()) of discover_sessions (line 696): the entries the
\* walk yields as Err, those at the indices of lost, are left out
Walked(d, lost) ==
    LET seen == SelectSeq([i \in 1..Len(d) |-> i], LAMBDA i : i \notin lost)
    IN  [k \in 1..Len(seen) |-> d[seen[k]]]

\* struct SessionSummary
SessionSummary(session, st) ==
    [session |-> session, user_messages |-> st.user_messages,
     assistant_messages |-> st.assistant_messages, other_records |-> st.other_records,
     preview |-> st.preview]

ListResult(status, sums) == [status |-> status, summaries |-> sums]

\* the loop of cmd_sessions_list over the sessions (lines 264-267)
RECURSIVE ListFrom(_, _, _, _, _)
AddSummary(d, sessions, with_preview, i, acc, summary) ==
    IF summary.status # "ok" THEN ListResult(summary.status, <<>>)
    ELSE ListFrom(d, sessions, with_preview, i + 1,
                  Append(acc, SessionSummary(sessions[i], summary)))

ListFrom(d, sessions, with_preview, i, acc) ==
    IF i > Len(sessions) THEN ListResult("ok", acc)
    ELSE AddSummary(d, sessions, with_preview, i, acc,
                    SummarizeSession(FileAt(d, sessions[i].path), with_preview))

CmdSessionsListTo(found) ==
    /\ lpc' = found.status
    /\ summaries' = found.summaries

\* cmd_sessions_list without a project filter
CmdSessionsList(with_preview, limit, lost) ==
    /\ lpc = "idle"
    /\ walk_errs' = Cardinality(lost)
    /\ CmdSessionsListTo(ListFrom(dir, Take(DiscoverSessions(Walked(dir, lost)), limit),
                                  with_preview, 1, <<>>))
    /\ UNCHANGED <<searchVars, parseVars, exportVars, mainVars, showVars, taskVars>>

----------------------------------------------------------------------------
(* Exporter: cmd_export, build_export_document and the renderers *)

\* str::replace(char, &str)
ReplaceChar(s, c, r) == Concat([i \in 1..Len(s) |-> IF s[i] = c THEN r ELSE <<s[i]>>])

\* a faulty variant of html_escape: the ampersand replaced last
HtmlEscapeAmpLast(input) ==
    ReplaceChar(
        ReplaceChar(
            ReplaceChar(
                ReplaceChar(
                    ReplaceChar(input, "<", Chars("&lt;")),
                    ">", Chars("&gt;")),
                "\"", Chars("&quot;")),
            "'", Chars("&#39;")),
        "&", Chars("&amp;"))

\* html_escape: five replacements, the ampersand first
HtmlEscape(input) ==
    ReplaceChar(
        ReplaceChar(
            ReplaceChar(
                ReplaceChar(
                    ReplaceChar(input, "&", Chars("&amp;")),
                    "<", Chars("&lt;")),
                ">", Chars("&gt;")),
            "\"", Chars("&quot;")),
        "'", Chars("&#39;"))

\* Path::display of a session file
PathDisplay(path) == path[1] \o <<"/">> \o path[2] \o Chars(".jsonl")

\* build_export_document
BuildExportDocument(session, evs) ==
    [session_id |-> session.id, session_short |-> session.id_short,
     project |-> session.project, source_path |-> session.path,
     modified_iso |-> session.modified_iso, event_count |-> Len(evs), events |-> evs]

\* event.timestamp.clone().unwrap_or_else(|| "-".to_string())
TimestampOrDash(event) == UnwrapOr(event.timestamp, <<"-">>)

\* the character U+0060, which a TLA+ string literal cannot hold
Tick == <<"GRAVE">>

\* render_markdown
RenderMarkdown(ds) ==
    Join([d \in 1..Len(ds) |->
            Chars("# cc-convo export\n\n")
                \o Chars("- Session: ") \o Tick \o ds[d].session_id \o Tick \o Chars("\n")
                \o Chars("- Project: ") \o Tick \o ds[d].project \o Tick \o Chars("\n")
                \o Chars("- Modified: ") \o Tick \o ds[d].modified_iso \o Tick \o Chars("\n")
                \o Chars("- Source: ") \o Tick \o PathDisplay(ds[d].source_path) \o Tick \o Chars("\n")
                \o Chars("- Events: ") \o Tick \o ToDecimal(ds[d].event_count) \o Tick \o Chars("\n\n")
                \o Concat([e \in 1..Len(ds[d].events) |->
                              Chars("## [") \o ds[d].events[e].role \o Chars("] ")
                                  \o TimestampOrDash(ds[d].events[e]) \o Chars("\n\n")
                                  \o ds[d].events[e].content \o Chars("\n\n")])],
         Chars("\n\n---\n\n"))

\* the three literals render_html starts with (lines 1253-1258)
HtmlHead ==
    Chars("<!doctype html><html><head><meta charset=\"utf-8\"><title>cc-convo export</title>")
        \o Chars("<style>body{font-family:ui-sans-serif,system-ui;margin:2rem;background:#f7f8fa;color:#1e2430} .card{background:#fff;border-radius:12px;padding:16px 20px;margin:0 0 16px 0;box-shadow:0 1px 2px rgba(0,0,0,.06)} .meta{color:#5c667a;font-size:.92rem} pre{white-space:pre-wrap;word-break:break-word;margin:0} h1,h2{margin:.2rem 0 .8rem} </style>")
        \o Chars("</head><body><h1>cc-convo export</h1>")

\* The pieces render_html puts together: the literals of its format strings
\* and the event count, as they are, and the texts it passes to html_escape
Lit(s) == [escaped |-> FALSE, s |-> s]
Arg(s) == [escaped |-> TRUE, s |-> s]

HtmlParts(ds) ==
    <<Lit(HtmlHead)>>
        \o Concat([d \in 1..Len(ds) |->
               <<Lit(Chars("<div class=\"card\">")),
                 Lit(Chars("<h2>")), Arg(ds[d].session_id),
                 Lit(Chars("</h2><div class=\"meta\">project=")), Arg(ds[d].project),
                 Lit(Chars(" modified=")), Arg(ds[d].modified_iso),
                 Lit(Chars(" source=")), Arg(PathDisplay(ds[d].source_path)),
                 Lit(Chars(" events=")), Lit(ToDecimal(ds[d].event_count)),
                 Lit(Chars("</div>")),
                 Lit(Chars("</div>"))>>
                   \o Concat([e \in 1..Len(ds[d].events) |->
                          <<Lit(Chars("<div class=\"card\">")),
                            Lit(Chars("<h2>[")), Arg(ds[d].events[e].role),
                            Lit(Chars("] ")), Arg(TimestampOrDash(ds[d].events[e])),
                            Lit(Chars("</h2><pre>")), Arg(ds[d].events[e].content),
                            Lit(Chars("</pre>")),
                            Lit(Chars("</div>"))>>])])
        \o <<Lit(Chars("</body></html>"))>>

\* the pieces in order, those of the interpolated texts through html_escape
PushParts(parts) ==
    Concat([i \in 1..Len(parts) |->
               IF parts[i].escaped THEN HtmlEscape(parts[i].s) ELSE parts[i].s])

\* render_html
RenderHtml(ds) == PushParts(HtmlParts(ds))

\* #[derive(Serialize)] of NormalizedEvent: the fields in declaration order
EventValue(event) ==
    JObj(<<Member(Chars("role"), JStr(event.role)),
           Member(Chars("source_type"), JStr(event.source_type)),
           Member(Chars("timestamp"),
                  IF event.timestamp = None THEN JNull ELSE JStr(event.timestamp[1])),
           Member(Chars("content"), JStr(event.content))>>)

\* #[derive(Serialize)] of ExportDocument: the fields in declaration order
DocValue(doc) ==
    JObj(<<Member(Chars("session_id"), JStr(doc.session_id)),
           Member(Chars("session_short"), JStr(doc.session_short)),
           Member(Chars("project"), JStr(doc.project)),
           Member(Chars("source_path"), JStr(PathDisplay(doc.source_path))),
           Member(Chars("modified_iso"), JStr(doc.modified_iso)),
           Member(Chars("event_count"), JNum(ToDecimal(doc.event_count))),
           Member(Chars("events"),
                  JArr([e \in 1..Len(doc.events) |-> EventValue(doc.events[e])]))>>)

\* the body write_single_export writes (lines 1195-1199)
WriteSingleExport(doc, format) ==
    CASE format = "markdown" -> RenderMarkdown(<<doc>>)
      [] format = "json" -> ToJsonPretty(DocValue(doc))
      [] format = "html" -> RenderHtml(<<doc>>)

\* the body write_bundle_export writes (lines 1217-1221)
WriteBundleExport(ds, format) ==
    CASE format = "markdown" -> RenderMarkdown(ds)
      [] format = "json" -> ToJsonPretty(JArr([d \in 1..Len(ds) |-> DocValue(ds[d])]))
      [] format = "html" -> RenderHtml(ds)

\* main runs one command: none of export, show and schema-inventory has run
NoCommandYet == xpc = "idle" /\ vpc = "idle" /\ tpc = "idle"

\* struct GlobalArgs: --since-hours and --since-days (clap rejects the two
\* together, lines 37-40)
GlobalArgs(since_hours, since_days) ==
    [since_hours |-> since_hours, since_days |-> since_days]

\* Utc::now(), in seconds after the epoch: an hour and two seconds
Now == 3600 + 2

\* struct TimeWindow, or the error of a zero threshold
TimeWindow(status, since) == [status |-> status, since |-> since]

\* time_window_from_global, without --until
TimeWindowFromGlobal(g) ==
    IF g.since_hours # None
    THEN IF g.since_hours[1] = 0 THEN TimeWindow("err", None)
         ELSE TimeWindow("ok", Some(Now - 3600 * g.since_hours[1]))
    ELSE IF g.since_days # None
    THEN IF g.since_days[1] = 0 THEN TimeWindow("err", None)
         ELSE TimeWindow("ok", Some(Now - 86400 * g.since_days[1]))
    ELSE TimeWindow("ok", None)

\* discover_sessions with a time window: a file modified before `since` is
\* skipped (lines 707-711)
DiscoverSessionsSince(d, since) ==
    DiscoverSessions(SelectSeq(d, LAMBDA e : since = None \/ e.mtime >= since[1]))

\* struct ExportArgs; --yes is given, and the output directory is the default
ExportArgs(sids, indices, recent, all, search, format, det, single_file) ==
    [sessions |-> sids, indices |-> indices, recent |-> recent, all |-> all,
     search |-> search, format |-> format, detailed |-> det,
     single_file |-> single_file]

NoExportArgs == ExportArgs(<<>>, <<>>, None, FALSE, None, "markdown", FALSE, FALSE)

\* the closure push_unique (lines 1094-1098): a session whose id was pushed
\* before is dropped
PushUnique(sel, s) ==
    IF \E k \in 1..Len(sel) : sel[k].id = s.id THEN sel ELSE Append(sel, s)

RECURSIVE PushAll(_, _)
PushAll(sel, ss) ==
    IF ss = <<>> THEN sel ELSE PushAll(PushUnique(sel, Head(ss)), Tail(ss))

\* the outcome of select_sessions_for_export: the selection, and the number
\* of session files its search opened
Selection(status, sel, opened) == [status |-> status, selected |-> sel, opened |-> opened]

\* sessions.iter().find(|s| &s.id == sid || &s.id_short == sid)
FindSession(ss, sid) ==
    IF \E k \in 1..Len(ss) : ss[k].id = sid \/ ss[k].id_short = sid
    THEN Some(ss[CHOOSE k \in 1..Len(ss) :
                     /\ ss[k].id = sid \/ ss[k].id_short = sid
                     /\ \A j \in 1..(k - 1) : ~(ss[j].id = sid \/ ss[j].id_short = sid)])
    ELSE None

\* selected.sort_by_key(|s| s.index): the indices of a selection are distinct
SortByIndex(sel) ==
    [k \in 1..Len(sel) |->
        sel[CHOOSE i \in 1..Len(sel) :
                Cardinality({j \in 1..Len(sel) : sel[j].index < sel[i].index}) = k - 1]]

\* the sessions with a hit, in the order of the session list (lines 1141-1146)
HitSessions(ss, hs) ==
    SelectSeq(ss, LAMBDA s : \E h \in 1..Len(hs) : hs[h].session_id = s.id)

\* the end of select_sessions_for_export (lines 1149-1156)
SelectEnd(sel, opened) ==
    IF sel = <<>> THEN Selection("err", <<>>, opened)
    ELSE Selection("ok", SortByIndex(sel), opened)

\* --search (lines 1130-1147): a smart search of every session, for both
\* speakers; max_results is usize::MAX, which search_sessions does not read
SelectSearched(ss, sel, r) ==
    IF r.status # "ok" THEN Selection(r.status, <<>>, r.scanned)
    ELSE SelectEnd(PushAll(sel, HitSessions(ss, r.hits)), r.scanned)

SelectSearch(d, ss, a, sel) ==
    IF a.search = None THEN SelectEnd(sel, 0)
    ELSE SelectSearched(ss, sel,
                        SearchSessions(d, ss, SearchArgs(a.search[1], "smart", "both",
                                                         FALSE, 2147483647, 150)))

\* --recent and --all (lines 1118-1128)
SelectRecentAll(d, ss, a, sel) ==
    SelectSearch(d, ss, a,
                 PushAll(PushAll(sel, IF a.recent = None THEN <<>> ELSE Take(ss, a.recent[1])),
                         IF a.all THEN ss ELSE <<>>))

\* --index (lines 1109-1117): 0 and an index after the last session are errors
RECURSIVE SelectIndices(_, _, _, _, _)
SelectIndices(d, ss, a, i, sel) ==
    IF i > Len(a.indices) THEN SelectRecentAll(d, ss, a, sel)
    ELSE IF a.indices[i] = 0 \/ a.indices[i] > Len(ss) THEN Selection("err", <<>>, 0)
    ELSE SelectIndices(d, ss, a, i + 1, PushUnique(sel, ss[a.indices[i]]))

\* --session (lines 1100-1107): an id or a short id no session has is an error
RECURSIVE SelectNamed(_, _, _, _, _)
SelectNamed(d, ss, a, i, sel) ==
    IF i > Len(a.sessions) THEN SelectIndices(d, ss, a, 1, sel)
    ELSE IF FindSession(ss, a.sessions[i]) = None THEN Selection("err", <<>>, 0)
    ELSE SelectNamed(d, ss, a, i + 1, PushUnique(sel, FindSession(ss, a.sessions[i])[1]))

\* select_sessions_for_export
SelectSessionsForExport(d, ss, a) == SelectNamed(d, ss, a, 1, <<>>)

\* the part of modified_iso before its first T (line 1187)
DateOf(iso) ==
    IF \E i \in 1..Len(iso) : iso[i] = "T"
    THEN SubSeq(iso, 1, (CHOOSE i \in 1..Len(iso) :
                            iso[i] = "T" /\ \A j \in 1..(i - 1) : iso[j] # "T") - 1)
    ELSE iso

Ext(format) ==
    CASE format = "markdown" -> Chars("md")
      [] format = "json" -> Chars("json")
      [] format = "html" -> Chars("html")

\* the file name of write_single_export, in the output directory (lines 1187-1194)
SingleExportPath(doc, format) ==
    Chars("cc-convo-") \o DateOf(doc.modified_iso) \o <<"-">> \o doc.session_short
        \o <<".">> \o Ext(format)

\* the file name of write_bundle_export (lines 1209-1216); the run is on
\* 2026-01-01
BundleExportPath(format) ==
    Chars("cc-convo-bundle-2026-01-01.") \o Ext(format)

\* the locals of cmd_export, how it ended, and the file-system operations
ExportState(status, ds, bs, errs, paths, ops) ==
    [status |-> status, docs |-> ds, bodies |-> bs, total_parse_errors |-> errs,
     output_files |-> paths, io |-> ops]

\* the loop over the selected sessions (lines 392-407) and the bundle (lines
\* 413-416)
RECURSIVE ExportFrom(_, _, _, _, _)
AddExported(d, selected, a, i, st, parsed, doc) ==
    IF parsed.status # "ok" THEN [st EXCEPT !.status = parsed.status]
    ELSE ExportFrom(d, selected, a, i + 1,
                    ExportState("run", Append(st.docs, doc),
                                IF a.single_file THEN st.bodies
                                ELSE Append(st.bodies, WriteSingleExport(doc, a.format)),
                                st.total_parse_errors + parsed.parse_errors,
                                IF a.single_file THEN st.output_files
                                ELSE Append(st.output_files,
                                            SingleExportPath(doc, a.format)),
                                IF a.single_file THEN st.io ELSE Append(st.io, "write")))

\* a faulty variant of the loop: a session that cannot be parsed is exported
\* without events
AddParsedExportSkipFailed(d, selected, a, i, st, parsed) ==
    AddExported(d, selected, a, i, [st EXCEPT !.io = Append(@, "open")],
                ScanState("ok", <<>>, 0), BuildExportDocument(selected[i], <<>>))

AddParsedExport(d, selected, a, i, st, parsed) ==
    AddExported(d, selected, a, i, [st EXCEPT !.io = Append(@, "open")], parsed,
                BuildExportDocument(selected[i], parsed.events))

ExportFrom(d, selected, a, i, st) ==
    IF i > Len(selected)
    THEN ExportState("ok", st.docs,
                     IF a.single_file THEN <<WriteBundleExport(st.docs, a.format)>>
                     ELSE st.bodies,
                     st.total_parse_errors,
                     IF a.single_file THEN <<BundleExportPath(a.format)>>
                     ELSE st.output_files,
                     IF a.single_file THEN Append(st.io, "write") ELSE st.io)
    ELSE AddParsedExport(d, selected, a, i, st,
                         ParseSessionEvents(FileAt(d, selected[i].path), a.detailed))

\* cmd_export after the selection (lines 355-416): no session is an error;
\* fs::create_dir_all, then the loop
ExportSessions(d, selected, a, ops) ==
    IF selected = <<>> THEN ExportState("err", <<>>, <<>>, 0, <<>>, ops)
    ELSE ExportFrom(d, selected, a, 1,
                    ExportState("run", <<>>, <<>>, 0, <<>>, Append(ops, "mkdir")))

\* the file-system operations up to the end of the selection: the directory
\* walk, then a File::open per session the search scanned
SelectOps(sel) == <<"walk">> \o [k \in 1..sel.opened |-> "open"]

\* a faulty variant of the export: the output directory is made first
ExportSelectedDirFirst(d, a, sel) ==
    IF sel.status # "ok" THEN ExportState(sel.status, <<>>, <<>>, 0, <<>>,
                                          <<"mkdir">> \o SelectOps(sel))
    ELSE ExportSessions(d, sel.selected, a, SelectOps(sel))

ExportSelected(d, a, sel) ==
    IF sel.status # "ok" THEN ExportState(sel.status, <<>>, <<>>, 0, <<>>, SelectOps(sel))
    ELSE ExportSessions(d, sel.selected, a, SelectOps(sel))

CmdExportTo(st) ==
    /\ xpc' = st.status
    /\ docs' = st.docs
    /\ bodies' = st.bodies
    /\ total_parse_errors' = st.total_parse_errors
    /\ output_files' = st.output_files
    /\ io' = st.io

\* main with Command::Export (lines 223-240), after the time window is built
CmdExportIn(window) ==
    IF window.status # "ok"
    THEN /\ discovered' = <<>>
         /\ selection' = <<>>
         /\ CmdExportTo(ExportState("err", <<>>, <<>>, 0, <<>>, <<>>))
    ELSE /\ discovered' = DiscoverSessionsSince(dir, window.since)
         /\ selection' = SelectSessionsForExport(dir, discovered', xargs').selected
         /\ CmdExportTo(ExportSelected(dir, xargs',
                                       SelectSessionsForExport(dir, discovered', xargs')))

\* main with Command::Export and cmd_export
CmdExport(since_hours, since_days, sids, indices, recent, all, search, format, det, single_file) ==
    /\ NoCommandYet
    /\ global' = GlobalArgs(since_hours, since_days)
    /\ xargs' = ExportArgs(sids, indices, recent, all, search, format, det, single_file)
    /\ CmdExportIn(TimeWindowFromGlobal(global'))
    /\ UNCHANGED <<searchVars, parseVars, listVars, showVars, taskVars>>

----------------------------------------------------------------------------
(* sessions show *)

\* str::parse::<usize> of a target: the number a string of digits stands for
IsDigits(t) == t # <<>> /\ \A i \in 1..Len(t) : \E n \in 0..9 : <<t[i]>> = ToDecimal(n)
DigitOf(c) == CHOOSE n \in 0..9 : <<c>> = ToDecimal(n)
RECURSIVE NumberOf(_)
NumberOf(t) ==
    IF t = <<>> THEN 0 ELSE 10 * NumberOf(SubSeq(t, 1, Len(t) - 1)) + DigitOf(t[Len(t)])
ParseUsize(t) == IF IsDigits(t) THEN Some(NumberOf(t)) ELSE None

\* resolve_session_target: None stands for its three errors
ResolveSessionTarget(ss, target) ==
    IF ParseUsize(target) # None
    THEN IF ParseUsize(target)[1] = 0 \/ ParseUsize(target)[1] > Len(ss) THEN None
         ELSE Some(ss[ParseUsize(target)[1]])
    ELSE FindSession(ss, target)

\* struct SessionsShowArgs, without --raw
SessionsShowArgs(target, det, max_lines) ==
    [target |-> target, detailed |-> det, max_lines |-> max_lines]

\* how cmd_sessions_show ended, the events it prints and its file-system
\* operations
ShowState(status, sel, evs, ops) ==
    [status |-> status, selected |-> sel, events |-> evs, io |-> ops]

\* the events printed: the first max_lines of them (lines 300-305)
ShowParsed(session, parsed, max_lines) ==
    IF parsed.status # "ok" THEN ShowState(parsed.status, <<session>>, <<>>, <<"walk", "open">>)
    ELSE ShowState("ok", <<session>>,
                   IF max_lines = None THEN parsed.events
                   ELSE Take(parsed.events, max_lines[1]),
                   <<"walk", "open">>)

\* cmd_sessions_show without --raw, after discover_sessions
ShowSession(d, ss, target, det, max_lines) ==
    IF ResolveSessionTarget(ss, target) = None THEN ShowState("err", <<>>, <<>>, <<"walk">>)
    ELSE ShowParsed(ResolveSessionTarget(ss, target)[1],
                    ParseSessionEvents(FileAt(d, ResolveSessionTarget(ss, target)[1].path),
                                       det),
                    max_lines)

CmdSessionsShowTo(st) ==
    /\ vpc' = st.status
    /\ selection' = st.selected
    /\ printed' = st.events
    /\ io' = st.io

CmdSessionsShowIn(window, target, det, max_lines) ==
    IF window.status # "ok"
    THEN /\ discovered' = <<>>
         /\ CmdSessionsShowTo(ShowState("err", <<>>, <<>>, <<>>))
    ELSE /\ discovered' = DiscoverSessionsSince(dir, window.since)
         /\ CmdSessionsShowTo(ShowSession(dir, discovered', target, det, max_lines))

\* main with `sessions show` and cmd_sessions_show
CmdSessionsShow(since_hours, since_days, target, det, max_lines) ==
    /\ NoCommandYet
    /\ global' = GlobalArgs(since_hours, since_days)
    /\ vargs' = SessionsShowArgs(target, det, max_lines)
    /\ CmdSessionsShowIn(TimeWindowFromGlobal(global'), target, det, max_lines)
    /\ UNCHANGED <<searchVars, parseVars, exportVars, listVars, output_files, taskVars>>

----------------------------------------------------------------------------
(* xtask schema-inventory (src/xtask/src/main.rs) *)

\* struct SchemaInventoryArgs, with the default glob and output directory
SchemaInventoryArgs(all, latest, since_hours, since_days) ==
    [all |-> all, latest |-> latest, since_hours |-> since_hours,
     since_days |-> since_days]

\* build_time_filter: the cutoff, or the error of a zero threshold
BuildTimeFilter(since_hours, since_days) ==
    IF since_hours # None /\ since_days # None THEN TimeWindow("err", None)
    ELSE IF since_hours # None
    THEN IF since_hours[1] = 0 THEN TimeWindow("err", None)
         ELSE TimeWindow("ok", Some(SaturatingSub(Now, since_hours[1] * 3600)))
    ELSE IF since_days # None
    THEN IF since_days[1] = 0 THEN TimeWindow("err", None)
         ELSE TimeWindow("ok", Some(SaturatingSub(Now, since_days[1] * 86400)))
    ELSE TimeWindow("ok", None)

\* how run_schema_inventory ended, its counter of parsed records and its
\* file-system operations
InventoryState(status, records, ops) == [status |-> status, total_records |-> records, io |-> ops]

\* the loop over the lines of a file (lines 122-153): Err for a line that
\* cannot be read, a line that is no JSON is counted apart
RECURSIVE CountLines(_, _, _)
CountLines(lines, i, st) ==
    IF i > Len(lines) THEN st
    ELSE IF lines[i].kind = "ioerr" THEN [st EXCEPT !.status = "err"]
    ELSE CountLines(lines, i + 1,
                    IF lines[i].kind = "json"
                    THEN [st EXCEPT !.total_records = @ + 1] ELSE st)

\* the loop over the selected files (lines 118-154), then the three reports
\* (lines 170-186)
RECURSIVE InventoryFrom(_, _, _, _)
InventoryCounted(d, fs, i, st) ==
    IF st.status # "run" THEN st ELSE InventoryFrom(d, fs, i + 1, st)

InventoryFrom(d, fs, i, st) ==
    IF i > Len(fs)
    THEN IF st.total_records = 0 THEN [st EXCEPT !.status = "err"]
         ELSE InventoryState("ok", st.total_records, st.io \o <<"write", "write", "write">>)
    ELSE IF ~FileAt(d, fs[i].path).openable
    THEN InventoryState("err", st.total_records, Append(st.io, "open"))
    ELSE InventoryCounted(d, fs, i,
                          CountLines(FileAt(d, fs[i].path).lines, 1,
                                     [st EXCEPT !.io = Append(@, "open")]))

\* the selection of the files (lines 80-110): collect_files_sorted_by_mtime
\* sorts as discover_sessions does
InventoryOf(d, all, latest, filter) ==
    IF d = <<>> THEN InventoryState("err", 0, <<"mkdir", "glob">>)
    ELSE IF filter.status # "ok" THEN InventoryState("err", 0, <<"mkdir", "glob">>)
    ELSE IF DiscoverSessionsSince(d, filter.since) = <<>>
    THEN InventoryState("err", 0, <<"mkdir", "glob">>)
    ELSE InventoryFrom(d, IF all THEN DiscoverSessionsSince(d, filter.since)
                          ELSE Take(DiscoverSessionsSince(d, filter.since), latest),
                       1, InventoryState("run", 0, <<"mkdir", "glob", "write">>))

RunSchemaInventoryTo(st) ==
    /\ tpc' = st.status
    /\ total_records' = st.total_records
    /\ io' = st.io

\* run_schema_inventory
RunSchemaInventory(all, latest, since_hours, since_days) ==
    /\ NoCommandYet
    /\ targs' = SchemaInventoryArgs(all, latest, since_hours, since_days)
    /\ RunSchemaInventoryTo(IF ~all /\ latest = 0 THEN InventoryState("err", 0, <<>>)
                            ELSE InventoryOf(dir, all, latest,
                                             BuildTimeFilter(since_hours, since_days)))
    /\ UNCHANGED <<searchVars, parseVars, exportVars, listVars, global, discovered,
                   selection, output_files, showVars>>

----------------------------------------------------------------------------
(* The inputs: strings, content blocks, records and lines *)

LongAscii == [i \in 1..LongLen |-> "x"]
\* U+00E9 repeated: the character boundaries are the even byte offsets
LongE == [i \in 1..LongLen |-> "e_acute"]
\* "a" then U+00E9 repeated: the character boundaries are the odd byte offsets
LongAE == [i \in 1..LongLen |-> IF i = 1 THEN "a" ELSE "e_acute"]

TextBlock(txt) == JObj(<<Member(S_text, JStr(txt)), Member(S_type, JStr(S_text))>>)
ToolResultBlock(content) ==
    JObj(<<Member(S_content, content), Member(S_tool_use_id, JStr(<<"a", "b", "c">>)),
           Member(S_type, JStr(S_tool_result))>>)

BlockPool == <<
    TextBlock(<<"h", "i">>),
    TextBlock(<<"A", " ", "b">>),
    TextBlock(<<" ">>),
    JObj(<<Member(S_thinking, JStr(<<"p", "r", "i", "v", "a", "t", "e">>)),
           Member(S_type, JStr(S_thinking))>>),
    JObj(<<Member(S_input, JObj(<<Member(<<"a">>, JNum(<<"1">>))>>)),
           Member(S_name, JStr(<<"x">>)), Member(S_type, JStr(S_tool_use))>>),
    JObj(<<Member(S_type, JStr(S_tool_use))>>),
    ToolResultBlock(JStr(<<"d", "o", "n", "e">>)),
    ToolResultBlock(JStr(LongAscii)),
    ToolResultBlock(JStr(LongAE)),
    JObj(<<Member(S_type, JStr(S_tool_result))>>),
    JObj(<<Member(S_type, JStr(S_image))>>),
    JObj(<<Member(S_type, JStr(S_document))>>),
    JObj(<<Member(S_type, JStr(<<"o", "t", "h", "e", "r">>))>>),
    JObj(<<Member(S_text, JNum(<<"7">>)), Member(S_type, JStr(S_text))>>),
    JStr(<<"s", "\n">>),
    JNum(<<"7">>)
>>

\* A record with the members the parser reads, in key order
Record(members) == JObj(members)

DialogRecord(type, content) ==
    Record(<<Member(S_message, JObj(<<Member(S_content, content)>>)),
             Member(S_timestamp, JStr(<<"T", "0">>)),
             Member(S_type, JStr(type))>>)

ProgressRecord(cmd) ==
    Record(<<Member(S_data, JObj(<<Member(S_command, JStr(cmd)),
                                   Member(S_hookName, JStr(<<"h">>)),
                                   Member(S_type, JStr(<<"t", "o", "o", "l">>))>>)),
             Member(S_type, JStr(S_progress))>>)

NoteRecord(note) ==
    Record(<<Member(<<"n", "o", "t", "e">>, JStr(note)),
             Member(S_type, JStr(<<"s", "u", "m", "m", "a", "r", "y">>))>>)

\* The message.content values of the one-line files: every array of at most
\* MaxBlocks blocks of BlockPool
ArrayOf(f) == JArr([i \in 1..Len(f) |-> BlockPool[f[i]]])

\* Records that are not a user/assistant record with an array content
OtherRecords == <<
    DialogRecord(S_user, JStr(<<"H", "e", "l", "l", "o", "\n", "A", "B">>)),
    DialogRecord(S_assistant, JStr(<<" ", "\n">>)),
    DialogRecord(S_assistant, JStr(<<>>)),
    DialogRecord(S_assistant, JObj(<<Member(<<"a">>, JNum(<<"1">>))>>)),
    DialogRecord(S_user, JNum(<<"7">>)),
    DialogRecord(S_user, JObj(<<Member(<<"a">>, JStr(LongAE))>>)),
    Record(<<Member(S_type, JStr(S_user))>>),
    Record(<<Member(S_message, JObj(<<>>)), Member(S_type, JStr(S_assistant))>>),
    Record(<<Member(S_subtype, JStr(<<"i", "n", "i", "t">>)),
             Member(S_timestamp, JStr(<<"T", "1">>)), Member(S_type, JStr(S_system))>>),
    Record(<<Member(S_type, JStr(S_system))>>),
    ProgressRecord(<<"l", "s">>),
    ProgressRecord(LongAE),
    ProgressRecord(LongE),
    Record(<<Member(S_data, JObj(<<Member(S_type, JStr(<<>>))>>)),
             Member(S_type, JStr(S_progress))>>),
    Record(<<Member(S_type, JStr(S_progress))>>),
    Record(<<Member(S_operation, JStr(<<"e", "n", "q", "u", "e", "u", "e">>)),
             Member(S_type, JStr(S_queue_operation))>>),
    Record(<<Member(S_type, JStr(S_queue_operation))>>),
    Record(<<Member(S_type, JStr(S_file_history_snapshot))>>),
    NoteRecord(<<"n">>),
    NoteRecord(LongE),
    NoteRecord(LongAE),
    Record(<<Member(S_message, JObj(<<Member(S_content, JStr(<<"h", "i">>))>>))>>),
    Record(<<Member(S_type, JNum(<<"7">>))>>),
    JNum(<<"4", "2">>),
    JStr(<<" ">>),
    JArr(<<>>),
    JNull
>>

\* The lines of the multi-line files
LinePool == <<
    Line("blank", JNull),
    Line("bad", JNull),
    Line("ioerr", JNull),
    Line("json", DialogRecord(S_user, ArrayOf(<<1>>))),
    Line("json", DialogRecord(S_assistant, ArrayOf(<<4, 5, 2>>))),
    Line("json", DialogRecord(S_assistant, ArrayOf(<<4, 11>>))),
    Line("json", DialogRecord(S_user, ArrayOf(<<9, 1>>))),
    Line("json", DialogRecord(S_user, ArrayOf(<<7, 3>>))),
    Line("json", DialogRecord(S_user, ArrayOf(<<3>>))),
    Line("json", OtherRecords[1]),
    Line("json", OtherRecords[2]),
    Line("json", OtherRecords[9]),
    Line("json", OtherRecords[11]),
    Line("json", OtherRecords[13]),
    Line("json", OtherRecords[19]),
    Line("json", OtherRecords[22]),
    Line("json", OtherRecords[24])
>>

File(openable, lines) == [openable |-> openable, lines |-> lines]

NoArgs == [query |-> <<>>, mode |-> "smart", speaker |-> "both",
           case_sensitive |-> FALSE, max_results |-> 0, context_chars |-> 0]

InitSearchIdle ==
    /\ dir = <<>>
    /\ args = NoArgs
    /\ spc = "idle"
    /\ hits = <<>>
    /\ scanned = 0
    /\ output = <<>>

\* no search yet, over the directory the state has
InitSearchIdleOver ==
    /\ args = NoArgs
    /\ spc = "idle"
    /\ hits = <<>>
    /\ scanned = 0
    /\ output = <<>>

InitExportIdle ==
    /\ xargs = NoExportArgs
    /\ xpc = "idle"
    /\ docs = <<>>
    /\ bodies = <<>>
    /\ total_parse_errors = 0
    /\ lpc = "idle"
    /\ summaries = <<>>
    /\ walk_errs = 0
    /\ global = GlobalArgs(None, None)
    /\ io = <<>>
    /\ discovered = <<>>
    /\ selection = <<>>
    /\ output_files = <<>>
    /\ vargs = SessionsShowArgs(<<>>, FALSE, None)
    /\ vpc = "idle"
    /\ printed = <<>>
    /\ targs = SchemaInventoryArgs(FALSE, 20, None, None)
    /\ tpc = "idle"
    /\ total_records = 0

InitParseIdle ==
    /\ detailed = FALSE
    /\ pc = "idle"
    /\ pos = 1
    /\ events = <<>>
    /\ parse_errors = 0
    /\ origin = <<>>
    /\ returned = [d \in BOOLEAN |-> NotCalled]

\* Files of at most MaxLines lines of LinePool, and a file that cannot be opened
Init ==
    /\ \E openable \in BOOLEAN, n \in 0..MaxLines :
          \E f \in [1..n -> 1..Len(LinePool)] :
              /\ openable \/ n = 0
              /\ file = File(openable, [i \in 1..n |-> LinePool[f[i]]])
    /\ InitParseIdle
    /\ InitExportIdle
    /\ InitSearchIdle

\* One-line files: a user or assistant record with any array of at most
\* MaxBlocks blocks, or one of OtherRecords
InitLine ==
    /\ \/ \E type \in {S_user, S_assistant}, n \in 0..MaxBlocks :
             \E f \in [1..n -> 1..Len(BlockPool)] :
                 file = File(TRUE, <<Line("json", DialogRecord(type, ArrayOf(f)))>>)
       \/ \E i \in 1..Len(OtherRecords) :
             file = File(TRUE, <<Line("json", OtherRecords[i])>>)
       \/ file = File(FALSE, <<>>)
    /\ InitParseIdle
    /\ InitExportIdle
    /\ InitSearchIdle

\* The session files of the search runs
SearchFilePool == <<
    File(TRUE, <<Line("json", DialogRecord(S_user, JStr(<<"a", "b", " ", "A", "b">>))),
                 Line("json", DialogRecord(S_assistant, ArrayOf(<<4, 1>>)))>>),
    File(TRUE, <<Line("bad", JNull),
                 Line("json", DialogRecord(S_assistant, JStr(<<"b", "\n", "a", "(">>))),
                 Line("json", ProgressRecord(<<"a", "b">>)),
                 Line("json", DialogRecord(S_user, ArrayOf(<<2, 7>>)))>>),
    File(TRUE, <<Line("json", DialogRecord(S_assistant, JStr(<<"a">>))),
                 Line("ioerr", JNull)>>)
>>

PathPool == << <<<<"p">>, <<"a">>>>, <<<<"q">>, <<"a">>>>, <<<<"p">>, <<"b">>>> >>

QueryPool == << <<>>, <<" ">>, <<"A", "b">>, <<"a", " ", "z">>, <<"a", "(">>, <<"a", ".">> >>

\* Directories of at most MaxSessions session files, at distinct paths; the
\* directory walk yields them in the order of PathPool or in the reverse order
InitSearch ==
    /\ \E n \in 0..MaxSessions :
          \E ps \in [1..n -> 1..Len(PathPool)], ms \in [1..n -> 1..2],
             fs \in [1..n -> 1..Len(SearchFilePool)] :
              /\ \/ \A i, j \in 1..n : i < j => ps[i] < ps[j]
                 \/ \A i, j \in 1..n : i < j => ps[i] > ps[j]
              /\ dir = [i \in 1..n |-> Entry(PathPool[ps[i]][1], PathPool[ps[i]][2],
                                            ms[i], SearchFilePool[fs[i]])]
    /\ args = NoArgs
    /\ spc = "idle"
    /\ hits = <<>>
    /\ scanned = 0
    /\ output = <<>>
    /\ file = File(FALSE, <<>>)
    /\ InitParseIdle
    /\ InitExportIdle

NextSearch ==
    \E q \in 1..Len(QueryPool), mode \in {"smart", "exact", "regex"},
       speaker \in {"user", "assistant", "both"}, cs \in BOOLEAN,
       mr \in {0, MaxResults}, cc \in {0, 2} :
        CmdSearch(QueryPool[q], mode, speaker, cs, mr, cc)

\* The texts and the queries of the searches of one event
ScoreTextPool == <<
    <<"a", "l", "p", "h", "a">>,
    <<"A", "l", "p", "h", "a", " ", "x">>,
    <<"a", "l", "p", "h", "a", " ", "b", "e", "t", "a">>,
    <<"b", "e", "t", "a">>,
    <<"k", " ", "m", " ", "n">>,
    <<"z", "z">>,
    <<"e_acute", " ", "a", "l", "p", "h", "a">>,
    <<"z", "z", " ", "a", "l", "p", "h", "a", " ", "z", "z">>,
    <<"e_acute", "e_acute", " ", "a", "l", "p", "h", "a", " ", "z", "z", "z", "z", "z", "z">>
>>

ScoreQueryPool == <<
    <<"a", "l", "p", "h", "a", " ", "b", "e", "t", "a">>,
    <<"a", "l", "p", "h", "a">>,
    <<"k", " ", "m", " ", "n", " ", "o", " ", "p", " ", "r", " ", "s", " ", "u">>,
    <<" ">>,
    <<>>,
    <<"b", "e", "t", "a", " ", " ", "a", "l", "p", "h", "a">>
>>

\* A directory of one session whose file is one user or assistant line,
\* followed or not by the user line "alpha"
InitScore ==
    /\ \E t \in 1..Len(ScoreTextPool), type \in {S_user, S_assistant}, more \in BOOLEAN :
          dir = << Entry(<<"p">>, <<"a">>, 1,
                         File(TRUE,
                              <<Line("json", DialogRecord(type, JStr(ScoreTextPool[t])))>>
                              \o (IF more
                                  THEN <<Line("json",
                                              DialogRecord(S_user,
                                                           JStr(<<"a", "l", "p", "h", "a">>)))>>
                                  ELSE <<>>))) >>
    /\ args = NoArgs
    /\ spc = "idle"
    /\ hits = <<>>
    /\ scanned = 0
    /\ output = <<>>
    /\ file = File(FALSE, <<>>)
    /\ InitParseIdle
    /\ InitExportIdle

NextScore ==
    \E q \in 1..Len(ScoreQueryPool), mode \in {"smart", "exact", "regex"},
       speaker \in {"user", "assistant", "both"}, cs \in BOOLEAN :
        CmdSearch(ScoreQueryPool[q], mode, speaker, cs, MaxResults, 2)

\* Lines with blocks and records that non-detail parsing leaves out
HiddenLinePool == <<
    Line("json", DialogRecord(S_user,
        JArr(<<TextBlock(<<"a", "l", "p", "h", "a">>),
               JObj(<<Member(S_thinking, JStr(<<"b", "e", "t", "a">>)),
                      Member(S_type, JStr(S_thinking))>>)>>))),
    Line("json", DialogRecord(S_assistant,
        JArr(<<JObj(<<Member(S_name, JStr(<<"a", "l", "p", "h", "a">>)),
                      Member(S_type, JStr(S_tool_use))>>),
               TextBlock(<<"b", "e", "t", "a">>),
               ToolResultBlock(JStr(<<"a", "l", "p", "h", "a", " ", "b", "e", "t", "a">>)),
               JObj(<<Member(S_type, JStr(S_image))>>),
               JObj(<<Member(S_type, JStr(S_document))>>)>>))),
    Line("json", DialogRecord(S_assistant,
        JArr(<<JObj(<<Member(S_thinking, JStr(<<"a", "l", "p", "h", "a">>)),
                      Member(S_type, JStr(S_thinking))>>)>>))),
    Line("json", ProgressRecord(<<"a", "l", "p", "h", "a">>)),
    Line("json", Record(<<Member(S_subtype, JStr(<<"b", "e", "t", "a">>)),
                          Member(S_type, JStr(S_system))>>)),
    Line("json", DialogRecord(S_user, JStr(<<"a", "l", "p", "h", "a", " ", "b", "e", "t", "a">>))),
    Line("bad", JNull)
>>

\* A directory of one session whose file is at most MaxLines lines of
\* HiddenLinePool
InitShown ==
    /\ \E n \in 0..MaxLines :
          \E f \in [1..n -> 1..Len(HiddenLinePool)] :
              dir = << Entry(<<"p">>, <<"a">>, 1,
                             File(TRUE, [i \in 1..n |-> HiddenLinePool[f[i]]])) >>
    /\ args = NoArgs
    /\ spc = "idle"
    /\ hits = <<>>
    /\ scanned = 0
    /\ output = <<>>
    /\ file = File(FALSE, <<>>)
    /\ InitParseIdle
    /\ InitExportIdle

\* The session files of the exports: texts with the characters HTML and JSON
\* escape, a record without a timestamp, a record of an unknown type
ExportFilePool == <<
    File(TRUE, <<Line("json", DialogRecord(S_user, JStr(Chars("<script>x&y</script>")))),
                 Line("json", DialogRecord(S_assistant, JStr(Chars("a\"b'c\\d\n&lt;"))))>>),
    File(TRUE, <<Line("bad", JNull),
                 Line("json", Record(<<Member(S_message,
                                              JObj(<<Member(S_content, JStr(Chars("hi")))>>)),
                                       Member(S_type, JStr(S_user))>>)),
                 Line("json", Record(<<Member(S_timestamp, JStr(Chars("<T&'>"))),
                                       Member(S_type, JStr(Chars("<b>")))>>))>>),
    File(TRUE, <<>>),
    File(TRUE, <<Line("json", DialogRecord(S_assistant, JStr(Chars("ok")))),
                 Line("ioerr", JNull)>>)
>>

ExportPathPool == << <<Chars("a&b"), Chars("i\"t's")>>, <<Chars("p"), Chars("<a>")>>,
                     <<Chars("q"), Chars("b")>> >>

\* Directories of at most MaxSessions session files, at distinct paths; the
\* directory walk yields them in the order of ExportPathPool or in the reverse
\* order
InitExport ==
    /\ \E n \in 0..MaxSessions :
          \E ps \in [1..n -> 1..Len(ExportPathPool)], ms \in [1..n -> 1..2],
             fs \in [1..n -> 1..Len(ExportFilePool)] :
              /\ \/ \A i, j \in 1..n : i < j => ps[i] < ps[j]
                 \/ \A i, j \in 1..n : i < j => ps[i] > ps[j]
              /\ dir = [i \in 1..n |-> Entry(ExportPathPool[ps[i]][1],
                                            ExportPathPool[ps[i]][2],
                                            ms[i], ExportFilePool[fs[i]])]
    /\ InitSearchIdleOver
    /\ file = File(FALSE, <<>>)
    /\ InitParseIdle
    /\ InitExportIdle

NextExport ==
    \E format \in {"markdown", "json", "html"}, det \in BOOLEAN, single_file \in BOOLEAN :
        CmdExport(None, None, <<>>, <<>>, None, TRUE, None, format, det, single_file)

\* Session files that can and cannot be read
IoFilePool == <<
    File(TRUE, <<Line("json", DialogRecord(S_user, JStr(Chars("alpha"))))>>),
    File(TRUE, <<Line("bad", JNull),
                 Line("json", DialogRecord(S_assistant, JStr(Chars("alpha beta")))),
                 Line("bad", JNull)>>),
    File(TRUE, <<Line("json", DialogRecord(S_user, JStr(Chars("alpha")))),
                 Line("ioerr", JNull),
                 Line("json", DialogRecord(S_user, JStr(Chars("alpha"))))>>),
    File(FALSE, <<>>)
>>

\* Directories of at most MaxSessions files of IoFilePool, at distinct paths;
\* the directory walk yields them in the order of PathPool or in the reverse
\* order
InitIo ==
    /\ \E n \in 0..MaxSessions :
          \E ps \in [1..n -> 1..Len(PathPool)], ms \in [1..n -> 1..2],
             fs \in [1..n -> 1..Len(IoFilePool)] :
              /\ \/ \A i, j \in 1..n : i < j => ps[i] < ps[j]
                 \/ \A i, j \in 1..n : i < j => ps[i] > ps[j]
              /\ dir = [i \in 1..n |-> Entry(PathPool[ps[i]][1], PathPool[ps[i]][2],
                                            ms[i], IoFilePool[fs[i]])]
    /\ InitSearchIdleOver
    /\ file = File(FALSE, <<>>)
    /\ InitParseIdle
    /\ InitExportIdle

NextList ==
    \E with_preview \in BOOLEAN, limit \in {1, MaxSessions},
       lost \in SUBSET (1..Len(dir)) :
        CmdSessionsList(with_preview, limit, lost)

\* The session files of the commands of main: one that a search for "alpha"
\* hits, one with a malformed line, one with a line that cannot be read
MainFilePool == <<
    File(TRUE, <<Line("json", DialogRecord(S_user, JStr(Chars("alpha"))))>>),
    File(TRUE, <<Line("bad", JNull),
                 Line("json", DialogRecord(S_assistant, JStr(Chars("beta"))))>>),
    File(TRUE, <<Line("json", DialogRecord(S_user, JStr(Chars("alpha beta")))),
                 Line("ioerr", JNull)>>)
>>

\* Paths of session files: the same file name in two projects, and two file
\* names with the same first eight characters
MainPathPool == << <<Chars("p"), Chars("a")>>, <<Chars("p"), Chars("aaaaaaaaa")>>,
                   <<Chars("p"), Chars("aaaaaaaab")>>, <<Chars("q"), Chars("a")>> >>

\* The selectors of an export: --session, --index, --recent, --all, --search
SelectorPool == <<
    << <<>>, <<>>, None, FALSE, None >>,
    << <<>>, <<>>, Some(0), FALSE, None >>,
    << <<>>, <<>>, None, FALSE, Some(Chars("zz")) >>,
    << <<>>, <<>>, None, TRUE, None >>,
    << <<>>, <<0>>, None, FALSE, None >>,
    << <<>>, <<2, 1>>, None, FALSE, None >>,
    << <<>>, <<MaxSessions + 1>>, None, FALSE, None >>,
    << <<Chars("a")>>, <<>>, None, FALSE, None >>,
    << <<Chars("zz")>>, <<0>>, None, FALSE, None >>,
    << <<Chars("aaaaaaaa")>>, <<>>, None, FALSE, None >>,
    << <<>>, <<>>, None, FALSE, Some(Chars("alpha")) >>,
    << <<>>, <<2>>, Some(1), FALSE, None >>,
    << <<>>, <<1>>, None, TRUE, Some(Chars("alpha")) >>
>>

TargetPool == << Chars("0"), Chars("1"), Chars("2"), Chars("a"), Chars("zz") >>

\* Directories of at most MaxSessions files of MainFilePool, at distinct
\* paths; the directory walk yields them in the order of MainPathPool or in
\* the reverse order
InitMain ==
    /\ \E n \in 0..MaxSessions :
          \E ps \in [1..n -> 1..Len(MainPathPool)], ms \in [1..n -> 1..2],
             fs \in [1..n -> 1..Len(MainFilePool)] :
              /\ \/ \A i, j \in 1..n : i < j => ps[i] < ps[j]
                 \/ \A i, j \in 1..n : i < j => ps[i] > ps[j]
              /\ dir = [i \in 1..n |-> Entry(MainPathPool[ps[i]][1], MainPathPool[ps[i]][2],
                                            ms[i], MainFilePool[fs[i]])]
    /\ InitSearchIdleOver
    /\ file = File(FALSE, <<>>)
    /\ InitParseIdle
    /\ InitExportIdle

NextMain ==
    \/ \E k \in 1..Len(SelectorPool), single_file \in BOOLEAN :
          CmdExport(None, None, SelectorPool[k][1], SelectorPool[k][2], SelectorPool[k][3],
                    SelectorPool[k][4], SelectorPool[k][5], "markdown", FALSE, single_file)
    \/ \E h \in 0..1, days \in BOOLEAN, format \in {"json", "html"} :
          CmdExport(IF days THEN None ELSE Some(h), IF days THEN Some(h) ELSE None,
                    <<>>, <<>>, None, TRUE, None, format, TRUE, FALSE)
    \/ \E h \in 0..2, t \in 1..Len(TargetPool), det \in BOOLEAN :
          CmdSessionsShow(IF h = 2 THEN None ELSE Some(h), None, TargetPool[t], det,
                          IF det THEN None ELSE Some(1))
    \/ \E all \in BOOLEAN, latest \in 0..1, h \in 0..2, days \in BOOLEAN :
          RunSchemaInventory(all, latest, IF h = 2 \/ days THEN None ELSE Some(h),
                             IF h < 2 /\ days THEN Some(h) ELSE None)

\* The texts of the previews: a match with text on both sides, newlines
\* around the match, the match alone, two-byte characters before the match,
\* and texts a query of two words matches without occurring in them
PreviewTextPool == <<
    Chars("zz alpha zz"),
    Chars("ab\ncd alpha\nzz"),
    Chars("alpha"),
    <<"e_acute", "e_acute">> \o Chars(" alpha zzzzzz"),
    Chars("Alpha beta\ngamma"),
    <<"e_acute">> \o Chars("a beta gamma")
>>

PreviewQueryPool == <<
    Chars("alpha"), Chars("ALPHA"), Chars("gamma alpha"), Chars("a."), Chars("beta")
>>

\* A directory of one session whose file is one user line
InitPreview ==
    /\ \E t \in 1..Len(PreviewTextPool) :
          dir = << Entry(<<"p">>, <<"a">>, 1,
                         File(TRUE, <<Line("json",
                                           DialogRecord(S_user,
                                                        JStr(PreviewTextPool[t])))>>)) >>
    /\ InitSearchIdleOver
    /\ file = File(FALSE, <<>>)
    /\ InitParseIdle
    /\ InitExportIdle

NextPreview ==
    \E q \in 1..Len(PreviewQueryPool), mode \in {"smart", "exact", "regex"},
       cs \in BOOLEAN, cc \in 0..(MaxResults + 1) :
        CmdSearch(PreviewQueryPool[q], mode, "both", cs, MaxResults, cc)

Spec == Init /\ [][NextParse]_vars

SpecLine == InitLine /\ [][NextParse]_vars

SpecSearch == InitSearch /\ [][NextSearch]_vars

SpecScore == InitScore /\ [][NextScore]_vars

SpecShown == InitShown /\ [][NextScore]_vars

SpecExport == InitExport /\ [][NextExport]_vars

SpecIo == InitIo /\ [][NextScore]_vars

SpecList == InitIo /\ [][NextList]_vars

SpecMain == InitMain /\ [][NextMain]_vars

SpecPreview == InitPreview /\ [][NextPreview]_vars

----------------------------------------------------------------------------
(* Claims about the event normalizer *)

Lines == file.lines
Finished(d) == returned[d].status # "none"
ReturnedOk(d) == returned[d].status = "ok"

\* the record of a one-line file, its type as the parser reads it, and its
\* message.content
TheRecord == Lines[1].value
TheType == UnwrapOr(AsStr(Get(TheRecord, S_type)), S_unknown)
TheContent == AndThenGet(Get(TheRecord, S_message), S_content)
OneJsonLine == Len(Lines) = 1 /\ Lines[1].kind = "json"
OneDialogArray ==
    /\ OneJsonLine
    /\ IsDialogType(TheType)
    /\ IsSome(TheContent)
    /\ TheContent[1].k = "arr"

\* C1: every event of the list being built, and every event a call returned,
\* has a content that is not empty and not only whitespace, whatever the record
\* kind and the detail flag.
C1_ContentNeverBlank ==
    /\ \A i \in 1..Len(events) : ~TrimIsEmpty(events[i].content)
    /\ \A d \in BOOLEAN : \A i \in 1..Len(returned[d].events) :
          ~TrimIsEmpty(returned[d].events[i].content)

\* a detail-mode call returned the event of a record of an unrecognized type,
\* and the record of the file is one whose text is blank in non-detail mode
C1_Witness ==
    /\ ReturnedOk(TRUE) /\ ReturnedOk(FALSE)
    /\ Len(returned[TRUE].events) = 1
    /\ ~IsDialogType(returned[TRUE].events[1].role)
    /\ ~IsNonDialogType(returned[TRUE].events[1].role)
    /\ returned[FALSE].events = <<>>

BadLines(n) == Cardinality({i \in 1..n : Lines[i].kind = "bad"})

C2_Step ==
    /\ (pc = "scan" /\ pos <= Len(Lines) /\ Lines[pos].kind = "bad")
          => /\ parse_errors' = parse_errors + 1
             /\ events' = events
             /\ pc' = "scan"
             /\ pos' = pos + 1
    /\ (pc = "scan" /\ pos <= Len(Lines) /\ Lines[pos].kind = "blank")
          => /\ parse_errors' = parse_errors
             /\ events' = events
             /\ pc' = "scan"
             /\ pos' = pos + 1
    /\ (pc = "scan" /\ pc' \in {"scan", "ok"}) => parse_errors' >= parse_errors
    /\ (pc = "scan" /\ pc' = "ok")
          => /\ returned'[detailed].status = "ok"
             /\ returned'[detailed].parse_errors = BadLines(Len(Lines))
             /\ parse_errors' = BadLines(Len(Lines))

\* C2: a non-blank line that is not JSON adds exactly 1 to parse_errors, adds no
\* event and leaves the scan running at the next line; a blank line changes
\* neither; the counter never decreases during a scan, and a call that returns
\* Ok reports the number of such lines of the whole file.
C2_BadLinesCounted == [][C2_Step]_vars

\* a call returned Ok after a malformed first line, with the event of a later line
C2_Witness ==
    /\ pc = "ok"
    /\ Len(Lines) >= 2
    /\ Lines[1].kind = "bad"
    /\ Lines[2].kind = "json"
    /\ parse_errors = 1
    /\ Len(events) = 1
    /\ origin = <<2>>

\* C3: the events are in source line order: each event comes from one JSON line
\* already read, the lines of the events strictly increase (so no line gives two
\* events), every line read that yields an event is there, and the list a call
\* returns is that list.
C3_SourceLineOrder ==
    pc \in {"scan", "ok"} =>
        /\ Len(origin) = Len(events)
        /\ \A i, j \in 1..Len(origin) : i < j => origin[i] < origin[j]
        /\ \A i \in 1..Len(origin) :
              /\ origin[i] < pos
              /\ Lines[origin[i]].kind = "json"
              /\ LineEvents(Lines[origin[i]].value, detailed) = <<events[i]>>
        /\ \A n \in 1..(pos - 1) :
              (Lines[n].kind = "json" /\ LineEvents(Lines[n].value, detailed) # <<>>)
                  => \E i \in 1..Len(origin) : origin[i] = n
        /\ pc = "ok" => returned[detailed].events = events

\* a call returned two different events, of the first and of the second line
C3_Witness ==
    /\ pc = "ok"
    /\ origin = <<1, 2>>
    /\ events[1] # events[2]
    /\ returned[detailed].events = events

\* a block that is visible dialog text: a `text` block with a string text, or a
\* bare string
IsVisible(item) ==
    \/ item.k = "str"
    \/ /\ item.k = "obj"
       /\ AsStr(Get(item, S_type)) = Some(S_text)
       /\ IsSome(AsStr(Get(item, S_text)))

VisibleText(item) == IF item.k = "str" THEN item.s ELSE AsStr(Get(item, S_text))[1]

VisibleTexts(items) ==
    LET shown == SelectSeq(items, IsVisible)
    IN  [i \in 1..Len(shown) |-> VisibleText(shown[i])]

\* the events a record with the text `text` must give: one, unless it is blank
ExpectedEvents(text) ==
    IF TrimIsEmpty(text) THEN <<>>
    ELSE << [role |-> TheType, source_type |-> TheType,
             timestamp |-> AsStr(Get(TheRecord, S_timestamp)), content |-> text] >>

\* C4: in non-detail mode, a user or assistant record with an array content
\* gives the newline-join of its text blocks and bare strings, in array order,
\* and nothing of the other blocks (no event when that join is blank); a string
\* content is used verbatim.
C4_TextOnly ==
    (ReturnedOk(FALSE) /\ OneJsonLine /\ IsDialogType(TheType) /\ IsSome(TheContent)) =>
        /\ TheContent[1].k = "arr" =>
              returned[FALSE].events
                  = ExpectedEvents(Join(VisibleTexts(TheContent[1].items), Nl))
        /\ TheContent[1].k = "str" =>
              returned[FALSE].events = ExpectedEvents(TheContent[1].s)

\* a non-detail call returned the text of the second block of an array whose
\* first block is a thinking block
C4_Witness ==
    /\ ReturnedOk(FALSE)
    /\ OneDialogArray
    /\ Len(TheContent[1].items) = 2
    /\ AsStr(Get(TheContent[1].items[1], S_type)) = Some(S_thinking)
    /\ IsVisible(TheContent[1].items[2])
    /\ Len(returned[FALSE].events) = 1
    /\ returned[FALSE].events[1].content = VisibleText(TheContent[1].items[2])

\* "truncated to cap": a text of more than cap bytes is cut to the whole
\* characters that fit in cap - 3 bytes, and "..." is appended
Truncated(s, cap) ==
    IF ByteLen(s) <= cap THEN s
    ELSE SubSeq(s, 1, CharsWithin(s, 1, Len(s), cap - 3)) \o Dots

BlockType(item) ==
    IF item.k = "obj" THEN UnwrapOr(AsStr(Get(item, S_type)), <<>>) ELSE <<>>

\* what a block contributes to the content in detail mode
DetailPart(item) ==
    CASE IsVisible(item) -> << VisibleText(item) >>
      [] BlockType(item) = S_thinking ->
            << S_thinking_tag \o UnwrapOr(AsStr(Get(item, S_thinking)), <<>>) >>
      [] BlockType(item) = S_tool_use ->
            << S_tool_use_tag \o UnwrapOr(AsStr(Get(item, S_name)), S_unknown) \o Nl
                   \o ToJsonPretty(UnwrapOr(Get(item, S_input), JObj(<<>>))) >>
      [] BlockType(item) = S_tool_result ->
            << S_tool_result_tag
                   \o UnwrapOr(AsStr(Get(item, S_tool_use_id)), S_unknown) \o Nl
                   \o Truncated(ToJson(UnwrapOr(Get(item, S_content), JNull)), 1200) >>
      [] BlockType(item) = S_image -> << S_image_omitted >>
      [] BlockType(item) = S_document -> << S_document_omitted >>
      [] OTHER -> <<>>

RECURSIVE DetailParts(_)
DetailParts(items) ==
    IF items = <<>> THEN <<>>
    ELSE DetailPart(items[1]) \o DetailParts(Tail(items))

DetailEvents == ExpectedEvents(Join(DetailParts(TheContent[1].items), Nl))

\* C5: in detail mode a user or assistant record with an array content gives
\* one event whose content is the newline-join, in array order, of the text
\* blocks and bare strings, "[thinking]\n" + text, "[tool_use] " + name + "\n" +
\* pretty JSON of the input, "[tool_result] " + id + "\n" + the content's JSON
\* truncated to 1200, "[image omitted]" and "[document omitted]" (no event is
\* asked for when that join is blank).
C5_DetailFormats ==
    (Finished(TRUE) /\ OneDialogArray) =>
        /\ ReturnedOk(TRUE)
        /\ returned[TRUE].events = DetailEvents

\* the same, of the calls that return: the formats are those of C5 whenever the
\* call does not stop in a panic
C5_FormatsWhenReturned ==
    (ReturnedOk(TRUE) /\ OneDialogArray) => returned[TRUE].events = DetailEvents

\* a detail call returned the event of an array with a tool_result block whose
\* JSON was truncated, before a text block
C5_ReturnedTruncated ==
    /\ ReturnedOk(TRUE)
    /\ OneDialogArray
    /\ Len(TheContent[1].items) = 2
    /\ BlockType(TheContent[1].items[1]) = S_tool_result
    /\ ByteLen(ToJson(UnwrapOr(Get(TheContent[1].items[1], S_content), JNull))) > 1200
    /\ IsVisible(TheContent[1].items[2])
    /\ Len(returned[TRUE].events) = 1

\* a detail call stopped in a panic on a user or assistant record whose array has
\* a tool_result block with a content of more than 1200 bytes of JSON, byte 1197
\* of which is inside a character
C5_Witness ==
    /\ returned[TRUE].status = "panic"
    /\ OneDialogArray
    /\ \E i \in 1..Len(TheContent[1].items) :
          /\ BlockType(TheContent[1].items[i]) = S_tool_result
          /\ ByteLen(ToJson(UnwrapOr(Get(TheContent[1].items[i], S_content), JNull))) > 1200
          /\ ~IsCharBoundary(ToJson(UnwrapOr(Get(TheContent[1].items[i], S_content), JNull)),
                             1197)

\* C6: records that are not user or assistant records give no event in
\* non-detail mode; in detail mode each gives exactly one event, whose role and
\* source_type are the record's type.
C6_NonDialogRecords ==
    /\ ReturnedOk(FALSE) =>
          \A i \in 1..Len(returned[FALSE].events) :
              IsDialogType(returned[FALSE].events[i].role)
    /\ (Finished(TRUE) /\ OneJsonLine /\ ~IsDialogType(TheType)) =>
          /\ ReturnedOk(TRUE)
          /\ Len(returned[TRUE].events) = 1
          /\ returned[TRUE].events[1].role = TheType
          /\ returned[TRUE].events[1].source_type = TheType

\* the same, of the detail calls that return
C6_OneEventWhenReturned ==
    /\ ReturnedOk(FALSE) =>
          \A i \in 1..Len(returned[FALSE].events) :
              IsDialogType(returned[FALSE].events[i].role)
    /\ (ReturnedOk(TRUE) /\ OneJsonLine /\ ~IsDialogType(TheType)) =>
          /\ Len(returned[TRUE].events) = 1
          /\ returned[TRUE].events[1].role = TheType
          /\ returned[TRUE].events[1].source_type = TheType

\* both calls returned on a progress record: no event, and one event
C6_ReturnedProgress ==
    /\ ReturnedOk(FALSE) /\ ReturnedOk(TRUE)
    /\ OneJsonLine
    /\ TheType = S_progress
    /\ returned[FALSE].events = <<>>
    /\ Len(returned[TRUE].events) = 1

\* a detail call stopped in a panic on a progress record whose command has more
\* than 120 bytes, byte 117 of which is inside a character
C6_Witness ==
    /\ returned[TRUE].status = "panic"
    /\ OneJsonLine
    /\ TheType = S_progress
    /\ ByteLen(UnwrapOr(AsStr(AndThenGet(Get(TheRecord, S_data), S_command)), <<>>)) > 120
    /\ ~IsCharBoundary(UnwrapOr(AsStr(AndThenGet(Get(TheRecord, S_data), S_command)), <<>>),
                       117)

\* the index in b where the first n characters of a end, when they are matched
\* one after the other to the first equal character of b that follows;
\* Len(b) + 1 when one of them has no match
RECURSIVE EmbedEnd(_, _, _)
EmbedEnd(a, b, n) ==
    IF n = 0 THEN 0
    ELSE LET before == EmbedEnd(a, b, n - 1)
         IN  IF \E j \in (before + 1)..Len(b) : b[j] = a[n]
             THEN CHOOSE j \in (before + 1)..Len(b) :
                      /\ b[j] = a[n]
                      /\ \A k \in (before + 1)..(j - 1) : b[k] # a[n]
             ELSE Len(b) + 1

\* every character of a is in b, in the same order
Preserved(a, b) == EmbedEnd(a, b, Len(a)) <= Len(b)

\* every event of terse has its own event in full, with the same role and
\* timestamp and a content that preserves its content, in the same order
Superset(terse, full) ==
    \E g \in [1..Len(terse) -> 1..Len(full)] :
        /\ \A i, j \in 1..Len(terse) : i < j => g[i] < g[j]
        /\ \A i \in 1..Len(terse) :
              /\ full[g[i]].role = terse[i].role
              /\ full[g[i]].timestamp = terse[i].timestamp
              /\ Preserved(terse[i].content, full[g[i]].content)

\* C7: on the same file, what the non-detail call returns is there in what the
\* detail call returns: every line that gives an event without detail gives one
\* with detail, in the same relative order and with its text preserved.
C7_DetailSuperset ==
    (ReturnedOk(FALSE) /\ Finished(TRUE)) =>
        /\ ReturnedOk(TRUE)
        /\ Superset(returned[FALSE].events, returned[TRUE].events)

\* the same, of the files on which both calls return
C7_SupersetWhenReturned ==
    (ReturnedOk(FALSE) /\ ReturnedOk(TRUE)) =>
        Superset(returned[FALSE].events, returned[TRUE].events)

\* both calls returned, the detail call with more events and a longer content
C7_ReturnedBoth ==
    /\ ReturnedOk(FALSE) /\ ReturnedOk(TRUE)
    /\ Len(returned[FALSE].events) = 1
    /\ Len(returned[TRUE].events) = 2
    /\ \E i \in 1..2 :
          Len(returned[TRUE].events[i].content) > Len(returned[FALSE].events[1].content)

\* on the same file the non-detail call returned an event and the detail call
\* stopped in a panic
C7_Witness ==
    /\ ReturnedOk(FALSE)
    /\ returned[FALSE].events # <<>>
    /\ returned[TRUE].status = "panic"

----------------------------------------------------------------------------
(* Claims about the search engine *)

\* C8: the relevance of every hit, of the ranked list and of the output, is at
\* least 0 and at most 1.0, whatever the mode and the query.
C8_RelevanceBounded ==
    /\ \A i \in 1..Len(hits) : hits[i].relevance >= 0 /\ hits[i].relevance <= Scale
    /\ \A i \in 1..Len(output) : output[i].relevance >= 0 /\ output[i].relevance <= Scale

\* an exact search for the empty query gave a hit of relevance 1.0 on a content
\* of 5 characters, where 0.5 + 0.1 * 6 is above 1.0
C8_Witness ==
    /\ spc = "ok"
    /\ args.mode = "exact"
    /\ args.query = <<>>
    /\ \E i \in 1..Len(hits) : hits[i].relevance = Scale
    /\ \E i \in 1..Len(dir) : \E n \in 1..Len(dir[i].file.lines) :
          /\ dir[i].file.lines[n].kind = "json"
          /\ LineEvents(dir[i].file.lines[n].value, FALSE) # <<>>
          /\ Len(LineEvents(dir[i].file.lines[n].value, FALSE)[1].content) >= 5

\* the number of times x is in the list xs
Occurs(xs, x) == Cardinality({i \in 1..Len(xs) : xs[i] = x})

\* the hits of all the sessions, before they are ranked
Unranked == ScanSessions(dir, DiscoverSessions(dir), args, 1, <<>>).hits

\* C9: the hits are ranked over all the sessions by descending relevance, and
\* by ascending session id where the relevance is equal; the ranked list has
\* the hits of every session, each as often as it was found; what cmd_search
\* prints is its first max_results elements.
C9_Ranking ==
    spc = "ok" =>
        /\ \A i, j \in 1..Len(hits) : i < j =>
              \/ hits[i].relevance > hits[j].relevance
              \/ /\ hits[i].relevance = hits[j].relevance
                 /\ ~StrLess(hits[j].session_id, hits[i].session_id)
        /\ Len(hits) = Len(Unranked)
        /\ \A i \in 1..Len(hits) : Occurs(hits, hits[i]) = Occurs(Unranked, hits[i])
        /\ Len(output) = Min(args.max_results, Len(hits))
        /\ \A i \in 1..Len(output) : output[i] = hits[i]

\* a search found hits of equal relevance in sessions of different ids, the
\* session of the greater id discovered first, and printed fewer than it found
C9_Witness ==
    /\ spc = "ok"
    /\ Len(hits) >= 3
    /\ \E i, j \in 1..Len(Unranked) :
          /\ i < j
          /\ Unranked[i].relevance = Unranked[j].relevance
          /\ StrLess(Unranked[j].session_id, Unranked[i].session_id)
    /\ \E i, j \in 1..Len(hits) : hits[i].relevance > hits[j].relevance
    /\ output # <<>>
    /\ Len(output) < Len(hits)

\* case folding, where the search is not case sensitive
Folded(s) == IF args.case_sensitive THEN s ELSE ToLowercase(s)

\* the starts of the occurrences of q in h
Starts(h, q) == {i \in 1..(Len(h) - Len(q) + 1) : SubSeq(h, i, i + Len(q) - 1) = q}

\* the number of occurrences of q in h that do not overlap: the most that any
\* choice of occurrences apart by Len(q) or more has; the empty string occurs
\* at every character boundary
OccurrenceCount(h, q) ==
    IF q = <<>> THEN Len(h) + 1
    ELSE LET apart == {c \in SUBSET Starts(h, q) :
                          \A x, y \in c : x < y => y - x >= Len(q)}
         IN  CHOOSE n \in 0..Len(h) :
                 /\ \E c \in apart : Cardinality(c) = n
                 /\ \A c \in apart : Cardinality(c) <= n

\* the events of a session that the search looks at: those of non-detail
\* parsing that the speaker filter keeps
Searched(session) ==
    SelectSeq(ParseSessionEvents(FileAt(dir, session.path), FALSE).events,
              LAMBDA e : SpeakerKeeps(args.speaker, e))

\* the relevances exact mode must give the events of a session, in event order
ExactScores(session) ==
    LET found == SelectSeq(Searched(session),
                           LAMBDA e : Starts(Folded(e.content), Folded(args.query)) # {})
    IN  [i \in 1..Len(found) |->
            Min(Scale, 5 * Tenth
                       + Tenth * OccurrenceCount(Folded(found[i].content),
                                                 Folded(args.query)))]

\* the relevances of the hits of a session, in the order they were found
HitScores(session) ==
    LET own == SelectSeq(Unranked, LAMBDA h : h.path = session.path)
    IN  [i \in 1..Len(own) |-> own[i].relevance]

\* C10: in exact mode an event is a hit exactly when its content contains the
\* query as a substring, after case folding of both unless the search is case
\* sensitive, and the relevance of the hit is min(1.0, 0.5 + 0.1 * the number
\* of occurrences); a query that no event contains gives the empty list.
C10_ExactMode ==
    (spc = "ok" /\ args.mode = "exact") =>
        /\ \A i \in 1..Len(DiscoverSessions(dir)) :
              HitScores(DiscoverSessions(dir)[i]) = ExactScores(DiscoverSessions(dir)[i])
        /\ Len(hits) = Len(Unranked)
        /\ (\A i \in 1..Len(DiscoverSessions(dir)) :
               ExactScores(DiscoverSessions(dir)[i]) = <<>>) => hits = <<>>

\* a search that folds case gave 0.7 to an event with two occurrences, one of
\* them in another case, and no hit to another event of the directory
C10_Witness ==
    /\ spc = "ok"
    /\ args.mode = "exact"
    /\ ~args.case_sensitive
    /\ args.query # ToLowercase(args.query)
    /\ \E i \in 1..Len(hits) : hits[i].relevance = 7 * Tenth
    /\ \E i \in 1..Len(DiscoverSessions(dir)) :
          Len(Searched(DiscoverSessions(dir)[i]))
              > Len(ExactScores(DiscoverSessions(dir)[i]))

\* the tokens of q, as the places of its longest runs without whitespace
TokenSpans(q) ==
    {sp \in (1..Len(q)) \X (1..Len(q)) :
        /\ sp[1] <= sp[2]
        /\ \A i \in sp[1]..sp[2] : ~IsWhitespace(q[i])
        /\ sp[1] = 1 \/ IsWhitespace(q[sp[1] - 1])
        /\ sp[2] = Len(q) \/ IsWhitespace(q[sp[2] + 1])}

\* the number of tokens of q that occur in h
TokensFound(h, q) ==
    Cardinality({sp \in TokenSpans(q) : Starts(h, SubSeq(q, sp[1], sp[2])) # {}})

WholeFound(h, q) == IF Starts(h, q) # {} THEN 1 ELSE 0

\* 0.6 * whole + 0.4 * found / tokens > 0.15, in exact arithmetic
SmartAbove(h, q) ==
    IF TokenSpans(q) = {} THEN WholeFound(h, q) = 1
    ELSE 2 * (6 * WholeFound(h, q) * Cardinality(TokenSpans(q)) + 4 * TokensFound(h, q))
             > 3 * Cardinality(TokenSpans(q))

\* min(1.0, 0.6 * whole + 0.4 * found / tokens)
SmartValue(h, q) ==
    Min(Scale, 6 * Tenth * WholeFound(h, q)
               + (IF TokenSpans(q) = {} THEN 0
                  ELSE (4 * Tenth * TokensFound(h, q)) \div Cardinality(TokenSpans(q))))

\* the relevances smart mode must give the events of a session, in event order
SmartScores(session) ==
    LET found == SelectSeq(Searched(session),
                           LAMBDA e : SmartAbove(Folded(e.content), Folded(args.query)))
    IN  [i \in 1..Len(found) |-> SmartValue(Folded(found[i].content), Folded(args.query))]

\* the exact score of an event is 0.15: 3 of every 8 tokens, not the whole query
AtThreshold(e) ==
    /\ WholeFound(Folded(e.content), Folded(args.query)) = 0
    /\ TokenSpans(args.query) # {}
    /\ 8 * TokensFound(Folded(e.content), Folded(args.query))
          = 3 * Cardinality(TokenSpans(args.query))

\* C11: in smart mode the score of an event is 0.6 if its text contains the whole
\* query, plus 0.4 times the fraction of the query's tokens it contains, capped
\* at 1.0 (case folded unless the search is case sensitive), and the event is a
\* hit exactly when that score is strictly above 0.15.
C11_SmartMode ==
    (spc = "ok" /\ args.mode = "smart") =>
        \A i \in 1..Len(DiscoverSessions(dir)) :
            HitScores(DiscoverSessions(dir)[i]) = SmartScores(DiscoverSessions(dir)[i])

\* the same, of the searches where no event has a score of exactly 0.15
C11_SmartModeOffThreshold ==
    (/\ spc = "ok" /\ args.mode = "smart"
     /\ \A i \in 1..Len(DiscoverSessions(dir)) :
           \A j \in 1..Len(Searched(DiscoverSessions(dir)[i])) :
               ~AtThreshold(Searched(DiscoverSessions(dir)[i])[j]))
        => \A i \in 1..Len(DiscoverSessions(dir)) :
              HitScores(DiscoverSessions(dir)[i]) = SmartScores(DiscoverSessions(dir)[i])

\* a smart search returned as a hit an event with 3 of the 8 tokens of the query
\* and not the whole query: a score of 0.4 * 3 / 8 = 0.15
C11_Witness ==
    /\ spc = "ok"
    /\ args.mode = "smart"
    /\ Cardinality(TokenSpans(args.query)) = 8
    /\ Len(hits) = 1
    /\ hits[1].relevance * 100 = 15 * Scale
    /\ \E j \in 1..Len(Searched(DiscoverSessions(dir)[1])) :
          AtThreshold(Searched(DiscoverSessions(dir)[1])[j])

S_alpha == <<"a", "l", "p", "h", "a">>
S_beta == <<"b", "e", "t", "a">>

\* a smart search for "alpha beta" has run over one event that the speaker
\* filter keeps, whose text has "alpha" and not "beta"
AlphaOnly ==
    /\ spc = "ok"
    /\ args.mode = "smart"
    /\ args.query = S_alpha \o <<" ">> \o S_beta
    /\ Len(DiscoverSessions(dir)) = 1
    /\ Len(Searched(DiscoverSessions(dir)[1])) = 1
    /\ Starts(Folded(Searched(DiscoverSessions(dir)[1])[1].content), S_alpha) # {}
    /\ Starts(Folded(Searched(DiscoverSessions(dir)[1])[1].content), S_beta) = {}

C13_RegexCompiledFirst ==
    (spc # "idle" /\ args.mode = "regex") =>
        /\ ~RegexCompiles(args.query) =>
              /\ spc = "err"
              /\ scanned = 0
              /\ hits = <<>>
              /\ output = <<>>
        /\ (RegexCompiles(args.query) /\ spc # "ok") =>
              /\ scanned >= 1
              /\ ParseSessionEvents(
                     FileAt(dir, DiscoverSessions(dir)[scanned].path), FALSE).status = spc

\* a regex search with a query that does not compile failed over a directory
\* of a session that matches the query as text and a session that cannot be read
C13_Witness ==
    /\ spc = "err"
    /\ args.mode = "regex"
    /\ ~RegexCompiles(args.query)
    /\ scanned = 0
    /\ Len(dir) = 2
    /\ \E i, j \in 1..2 :
          /\ ParseSessionEvents(dir[i].file, FALSE).status = "err"
          /\ ParseSessionEvents(dir[j].file, FALSE).status = "ok"
          /\ \E k \in 1..Len(ParseSessionEvents(dir[j].file, FALSE).events) :
                Starts(ParseSessionEvents(dir[j].file, FALSE).events[k].content,
                       args.query) # {}

\* the events of the i-th session, as non-detail parsing gives them
Parsed(i) == ParseSessionEvents(FileAt(dir, DiscoverSessions(dir)[i].path), FALSE)

\* the role the speaker filter asks for
FilterRole == IF args.speaker = "user" THEN S_user ELSE S_assistant

\* the events of the directory that have the role asked for (any role, for
\* `both`) and that the mode matches
MatchedOfRole ==
    {ev \in UNION {{<<i, j>> : j \in 1..Len(Parsed(i).events)} :
                      i \in 1..Len(DiscoverSessions(dir))} :
        /\ args.speaker = "both" \/ Parsed(ev[1]).events[ev[2]].role = FilterRole
        /\ MatchAndScore(args, Parsed(ev[1]).events[ev[2]])[1]}

\* C14: with the filter `user` every hit has the speaker "user", with
\* `assistant` the speaker "assistant"; the hits are as many as the matching
\* events of the role asked for, and with `both` as many as the matching events
\* of any role; an event of another role is left before it is matched and
\* previewed, so a search for a role that no event has returns no hit and
\* cannot fail on an event.
C14_SpeakerFilter ==
    /\ spc = "ok" =>
          /\ args.speaker # "both" =>
                \A i \in 1..Len(hits) : hits[i].speaker = FilterRole
          /\ Len(hits) = Cardinality(MatchedOfRole)
    /\ (/\ spc # "idle"
        /\ args.speaker # "both"
        /\ ~(args.mode = "regex" /\ ~RegexCompiles(args.query))
        /\ \A i \in 1..Len(DiscoverSessions(dir)) :
              /\ Parsed(i).status = "ok"
              /\ \A j \in 1..Len(Parsed(i).events) :
                    Parsed(i).events[j].role # FilterRole)
          => (spc = "ok" /\ hits = <<>>)

\* a search for the user returned the hit of the user event of a session, and
\* not the assistant event before it, which the same search for both speakers
\* matches and cannot preview
C14_Witness ==
    /\ spc = "ok"
    /\ args.speaker = "user"
    /\ Len(hits) = 1
    /\ hits[1].speaker = S_user
    /\ Len(dir) = 1
    /\ Len(Parsed(1).events) = 2
    /\ Parsed(1).events[1].role = S_assistant
    /\ MatchAndScore(args, Parsed(1).events[1])[1]
    /\ SearchSessions(dir, DiscoverSessions(dir),
                      [args EXCEPT !.speaker = "both"]).status = "panic"

----------------------------------------------------------------------------
(* Claims about what the search sees *)

\* a block the search must not see
IsHiddenBlock(item) ==
    BlockType(item) \in {S_thinking, S_tool_use, S_tool_result, S_image, S_document}

\* the object v with the member `key` replaced by val
WithMember(v, key, val) ==
    JObj([i \in 1..Len(v.fields) |->
             IF v.fields[i].key = key THEN Member(key, val) ELSE v.fields[i]])

\* a record without the hidden blocks of its message.content array
ShownRecord(value) ==
    LET message == Get(value, S_message)
        content == AndThenGet(message, S_content)
    IN  IF IsSome(content) /\ content[1].k = "arr"
        THEN WithMember(value, S_message,
                        WithMember(message[1], S_content,
                                   JArr(SelectSeq(content[1].items,
                                                  LAMBDA b : ~IsHiddenBlock(b)))))
        ELSE value

\* a line that holds a system, progress, queue-operation or
\* file-history-snapshot record
IsNonDialogLine(line) ==
    /\ line.kind = "json"
    /\ IsNonDialogType(UnwrapOr(AsStr(Get(line.value, S_type)), S_unknown))

\* a session file without its non-dialog records and its hidden blocks: two
\* files differ only in those exactly when this gives the same file for both
Shown(f) ==
    LET kept == SelectSeq(f.lines, LAMBDA line : ~IsNonDialogLine(line))
    IN  File(f.openable,
             [i \in 1..Len(kept) |->
                 IF kept[i].kind = "json"
                 THEN Line("json", ShownRecord(kept[i].value))
                 ELSE kept[i]])

ShownDir == [i \in 1..Len(dir) |-> [dir[i] EXCEPT !.file = Shown(@)]]

\* C15: the search sees only the visible dialog text: what a search returns
\* (the hits in their order, or the failure) is what the same search returns
\* over the same sessions without their thinking, tool_use, tool_result, image
\* and document blocks and without their non-dialog records, so two files that
\* differ only in those give the same hit list for every query and mode; and
\* the speaker of every hit is "user" or "assistant".
C15_VisibleTextOnly ==
    /\ spc # "idle" =>
          SearchSessions(ShownDir, DiscoverSessions(ShownDir), args)
              = SearchResult(spc, hits, scanned)
    /\ \A i \in 1..Len(hits) : hits[i].speaker \in {S_user, S_assistant}

\* a search returned hits over sessions that hold hidden blocks and a progress
\* record whose summary, were it an event, the query would match
C15_Witness ==
    /\ spc = "ok"
    /\ hits # <<>>
    /\ \E i \in 1..Len(dir) :
          /\ \E j \in 1..Len(dir[i].file.lines) :
                /\ dir[i].file.lines[j].kind = "json"
                /\ ShownRecord(dir[i].file.lines[j].value) # dir[i].file.lines[j].value
          /\ \E j \in 1..Len(dir[i].file.lines) :
                /\ IsNonDialogLine(dir[i].file.lines[j])
                /\ MatchAndScore(args,
                                 NormalizedEvent(S_progress, S_progress, None,
                                                 SummarizeNonDialogRecord(
                                                     dir[i].file.lines[j].value)))[1]

----------------------------------------------------------------------------
(* Claims about the context preview *)

\* the longest preview the claim allows, in characters
PreviewCap == 2 * args.context_chars + 6

\* C16: the context preview of every hit is at most 2 * context_chars + 6
\* characters long.
C16_PreviewBounded ==
    \A i \in 1..Len(hits) : Len(hits[i].preview) <= PreviewCap

\* a search returned a hit whose preview is the match with context_chars
\* bytes on each side and both ellipsis markers, and a search returned a hit
\* whose preview holds the whole text of its event
C16_Witness ==
    /\ spc = "ok"
    /\ Len(dir) = 1
    /\ Len(Parsed(1).events) = 1
    /\ Len(hits) = 1
    /\ Len(hits[1].preview) > PreviewCap
    /\ \/ Len(hits[1].preview) = PreviewCap + Len(args.query)
       \/ hits[1].preview = Dots \o Parsed(1).events[1].content \o Dots

\* Where every character of the event texts is one byte, the preview is at
\* most context_chars bytes on each side of the match, the match and the two
\* markers.
C16_AsciiPreviewBounded ==
    (/\ spc = "ok"
     /\ \A i \in 1..Len(dir) : \A j \in 1..Len(Parsed(i).events) :
           \A k \in 1..Len(Parsed(i).events[j].content) :
               Width(Parsed(i).events[j].content[k]) = 1)
        => \A i \in 1..Len(hits) :
               Len(hits[i].preview) <= PreviewCap + Len(args.query)

----------------------------------------------------------------------------
(* Claims about the exports *)

\* what one character of an interpolated text must become
Entity(c) ==
    CASE c = "&" -> Chars("&amp;")
      [] c = "<" -> Chars("&lt;")
      [] c = ">" -> Chars("&gt;")
      [] c = "\"" -> Chars("&quot;")
      [] c = "'" -> Chars("&#39;")
      [] OTHER -> <<c>>

\* a text with each of its characters escaped once
Escaped(s) == Concat([i \in 1..Len(s) |-> Entity(s[i])])

\* the page of the pieces, with each interpolated text escaped
ExpectedPage(parts) ==
    Concat([i \in 1..Len(parts) |->
               IF parts[i].escaped THEN Escaped(parts[i].s) ELSE parts[i].s])

\* the documents the k-th body written holds
DocsOfBody(k) == IF xargs.single_file THEN docs ELSE <<docs[k]>>

\* the interpolated texts of a document
TextsOf(doc) ==
    {doc.session_id, doc.project, doc.modified_iso, PathDisplay(doc.source_path)}
        \cup UNION {{doc.events[e].role, TimestampOrDash(doc.events[e]),
                      doc.events[e].content} : e \in 1..Len(doc.events)}

\* C17: every HTML body written is the page with the session id, project,
\* modified time, source path, and each event's role, timestamp and content
\* escaped character by character (& < > " ' to &amp; &lt; &gt; &quot; &#39;,
\* each once: no entity is escaped again); "<script" never occurs in a body,
\* and each project is rendered after "project=" with its "&" as "&amp;".
C17_HtmlEscaped ==
    (xpc # "idle" /\ xargs.format = "html") =>
        \A k \in 1..Len(bodies) :
            /\ bodies[k] = ExpectedPage(HtmlParts(DocsOfBody(k)))
            /\ ~Contains(bodies[k], Chars("<script"))
            /\ \A d \in 1..Len(DocsOfBody(k)) :
                  Contains(bodies[k],
                           Chars("project=")
                               \o ReplaceChar(DocsOfBody(k)[d].project, "&", Chars("&amp;"))
                               \o Chars(" modified="))

\* an HTML export wrote a body for a session of a project with "&" in its
\* name, with an event whose content holds "<script>" and an event whose
\* content holds the text "&lt;"
C17_Witness ==
    /\ xpc = "ok"
    /\ xargs.format = "html"
    /\ \E k \in 1..Len(bodies) : \E d \in 1..Len(DocsOfBody(k)) :
          /\ Contains(DocsOfBody(k)[d].project, <<"&">>)
          /\ \E e \in 1..Len(DocsOfBody(k)[d].events) :
                Contains(DocsOfBody(k)[d].events[e].content, Chars("<script>"))
          /\ \E e \in 1..Len(DocsOfBody(k)[d].events) :
                Contains(DocsOfBody(k)[d].events[e].content, Chars("&lt;"))
          /\ Contains(bodies[k], Chars("&lt;script&gt;"))
          /\ Contains(bodies[k], Chars("&amp;lt;"))
          /\ \E t \in TextsOf(DocsOfBody(k)[d]) : Contains(t, <<"'">>)
          /\ \E t \in TextsOf(DocsOfBody(k)[d]) : Contains(t, <<"\"">>)

\* Reading a JSON text back, as serde_json::from_str does for the texts the
\* exporter writes: a reader at index i of the text t gives the value that
\* starts there and the index after it.
\* the first index from i on that holds no space and no newline
SkipWs(t, i) ==
    CHOOSE j \in i..(Len(t) + 1) :
        /\ j = Len(t) + 1 \/ t[j] \notin {" ", "\n"}
        /\ \A k \in i..(j - 1) : t[k] \in {" ", "\n"}

Unescape(c) == CASE c = "n" -> "\n" [] c = "t" -> "\t" [] OTHER -> c

Read(v, next) == [v |-> v, next |-> next]

\* In a string that starts after the quote at i - 1: the character at p is
\* escaped when an odd number of backslashes stands right before it
BackslashesBefore(t, i, p) ==
    p - 1 - (CHOOSE q \in (i - 1)..(p - 1) :
                 /\ q = i - 1 \/ t[q] # "\\"
                 /\ \A k \in (q + 1)..(p - 1) : t[k] = "\\")
IsEscaped(t, i, p) == BackslashesBefore(t, i, p) % 2 = 1
IsClosing(t, i, p) == t[p] = "\"" /\ ~IsEscaped(t, i, p)

\* the string between i and its closing quote at j: the backslashes that
\* escape are left out and the characters they escape are undone
UnescapedOf(t, i, shown) ==
    [k \in 1..Len(shown) |->
        IF IsEscaped(t, i, shown[k]) THEN Unescape(t[shown[k]]) ELSE t[shown[k]]]
StringTo(t, i, j) ==
    Read(JStr(UnescapedOf(t, i,
                          SelectSeq([k \in 1..(j - i) |-> i + k - 1],
                                    LAMBDA p : ~(t[p] = "\\" /\ ~IsEscaped(t, i, p))))),
         j + 1)

\* the characters of a string up to its closing quote; i is after the opening
\* quote
ReadString(t, i) ==
    StringTo(t, i, CHOOSE j \in i..Len(t) :
                       /\ IsClosing(t, i, j)
                       /\ \A k \in i..(j - 1) : ~IsClosing(t, i, k))

RECURSIVE ReadDigits(_, _, _)
ReadDigits(t, i, acc) ==
    IF i <= Len(t) /\ \E d \in 0..9 : <<t[i]>> = ToDecimal(d)
    THEN ReadDigits(t, i + 1, Append(acc, t[i]))
    ELSE Read(JNum(acc), i)

RECURSIVE ReadValue(_, _)
RECURSIVE ReadItems(_, _, _)
RECURSIVE ReadMembers(_, _, _)

\* after an item comes a comma and the next item, or the closing bracket
ReadItems(t, i, acc) ==
    IF t[i] = "]" THEN Read(JArr(acc), i + 1)
    ELSE LET r == ReadValue(t, i)
             j == SkipWs(t, r.next)
         IN  ReadItems(t, IF t[j] = "," THEN SkipWs(t, j + 1) ELSE j, Append(acc, r.v))

\* a member is a key, a colon and a value
ReadMembers(t, i, acc) ==
    IF t[i] = "}" THEN Read(JObj(acc), i + 1)
    ELSE LET key == ReadString(t, i + 1)
             r == ReadValue(t, SkipWs(t, SkipWs(t, key.next) + 1))
             j == SkipWs(t, r.next)
         IN  ReadMembers(t, IF t[j] = "," THEN SkipWs(t, j + 1) ELSE j,
                         Append(acc, Member(key.v.s, r.v)))

ReadValue(t, i) ==
    CASE t[i] = "\"" -> ReadString(t, i + 1)
      [] t[i] = "n" -> Read(JNull, i + 4)
      [] t[i] = "[" -> ReadItems(t, SkipWs(t, i + 1), <<>>)
      [] t[i] = "{" -> ReadMembers(t, SkipWs(t, i + 1), <<>>)
      [] OTHER -> ReadDigits(t, i, <<>>)

FromJson(t) == ReadValue(t, SkipWs(t, 1)).v

\* the event a JSON object with the four members of NormalizedEvent stands for
EventOf(v) ==
    NormalizedEvent(AsStr(Get(v, Chars("role")))[1],
                    AsStr(Get(v, Chars("source_type")))[1],
                    AsStr(Get(v, Chars("timestamp"))),
                    AsStr(Get(v, Chars("content")))[1])

\* the events parse_session_events gave for the k-th session exported
ExportParsed(k) ==
    ParseSessionEvents(FileAt(dir, DiscoverSessions(dir)[k].path), xargs.detailed).events

\* the JSON value read back for the k-th document: the body of its own file,
\* or its place in the array of the bundle
ReadBack(k) ==
    IF xargs.single_file THEN FromJson(bodies[1]).items[k] ELSE FromJson(bodies[k])

\* the value read back stands for the document and for the events parsed
IsReadBack(back, doc, parsed) ==
    /\ back = DocValue(doc)
    /\ Get(back, Chars("event_count")) = Some(JNum(ToDecimal(Len(parsed))))
    /\ Len(Get(back, Chars("events"))[1].items) = Len(parsed)
    /\ \A e \in 1..Len(parsed) :
          EventOf(Get(back, Chars("events"))[1].items[e]) = parsed[e]

\* C18: the document built for a session holds the N events parsed from it,
\* in their order and unchanged, and event_count = N; the JSON written for
\* it, read back, is the document: event_count is N and the N events have the
\* same role, source_type, timestamp and content, in the same order.
C18_RoundTrip ==
    /\ \A k \in 1..Len(docs) :
          /\ docs[k].event_count = Len(ExportParsed(k))
          /\ docs[k].events = ExportParsed(k)
    /\ (xpc = "ok" /\ xargs.format = "json") =>
          \A k \in 1..Len(docs) : IsReadBack(ReadBack(k), docs[k], ExportParsed(k))

\* a JSON export wrote a session of two events, one whose content holds a
\* quote, a backslash and a newline, and a session with an event without a
\* timestamp
C18_Witness ==
    /\ xpc = "ok"
    /\ xargs.format = "json"
    /\ Len(docs) = 2
    /\ \E k \in 1..2 :
          /\ docs[k].event_count = 2
          /\ \E e \in 1..2 :
                /\ Contains(docs[k].events[e].content, <<"\"">>)
                /\ Contains(docs[k].events[e].content, <<"\\">>)
                /\ Contains(docs[k].events[e].content, <<"\n">>)
    /\ \E k \in 1..2 : \E e \in 1..Len(docs[k].events) : docs[k].events[e].timestamp = None

----------------------------------------------------------------------------
(* Claims about errors *)

\* a file that cannot be opened, or one of whose lines cannot be read
Unreadable(f) == ~f.openable \/ \E i \in 1..Len(f.lines) : f.lines[i].kind = "ioerr"

\* the lines of a file that are not JSON
MalformedLines(f) == {i \in 1..Len(f.lines) : f.lines[i].kind = "bad"}

\* the search was called with a pattern that compiles
SearchRan == spc # "idle" /\ ~(args.mode = "regex" /\ ~RegexCompiles(args.query))

\* C19: parse_session_events of a file that cannot be opened or read returns
\* the error and no ParseOutput, and of a file that can be read returns Ok
\* with its malformed lines counted; a search over sessions of which one
\* cannot be read returns the error and no hit, and a search over sessions
\* that can all be read returns Ok, whatever malformed lines they hold.
C19_IoErrorsPropagate ==
    /\ \A i \in 1..Len(dir) : \A det \in BOOLEAN :
          IF Unreadable(dir[i].file)
          THEN ParseSessionEvents(dir[i].file, det) = ParseErr
          ELSE /\ ParseSessionEvents(dir[i].file, det).status = "ok"
               /\ ParseSessionEvents(dir[i].file, det).parse_errors
                     = Cardinality(MalformedLines(dir[i].file))
    /\ SearchRan =>
          IF \E i \in 1..Len(dir) : Unreadable(dir[i].file)
          THEN spc = "err" /\ hits = <<>> /\ output = <<>>
          ELSE spc = "ok"

\* a search returned the error of the session it read second, after a
\* session with malformed lines and an event the query matches
C19_Witness ==
    /\ SearchRan
    /\ spc = "err"
    /\ scanned = 2
    /\ Parsed(1).status = "ok"
    /\ Parsed(1).parse_errors = 2
    /\ \E j \in 1..Len(Parsed(1).events) : MatchAndScore(args, Parsed(1).events[j])[1]
    /\ Parsed(2) = ParseErr
    /\ hits = <<>>

\* the sessions the list command summarized: the first `limit` of those the
\* walk did not lose; the state has no record of limit, hence the summaries
Listed == {summaries[k].session.path : k \in 1..Len(summaries)}

\* the errors a successful list command met: the entries the walk yielded as
\* Err, and the malformed lines of the files it summarized
ErrorsMet ==
    walk_errs
        + Cardinality(UNION {{<<i, j>> : j \in MalformedLines(dir[i].file)} :
                                i \in {i \in 1..Len(dir) :
                                          <<dir[i].project, dir[i].stem>> \in Listed}})

\* C20: no error is silently dropped.  The list command has no counter of
\* errors (a SessionSummary counts user, assistant and other records), so an
\* error it meets can only be reported by the command failing: a list command
\* that returns Ok has met no error while it walked the directory and read
\* the session files.
C20_NoErrorDropped == lpc = "ok" => ErrorsMet = 0

\* a list command returned Ok with the summary of a session file of three
\* lines, two of them malformed: the summary counts one record, and nothing
\* in it tells of the other two lines
C20_Witness ==
    /\ lpc = "ok"
    /\ walk_errs = 0
    /\ Len(summaries) = 1
    /\ \E i \in 1..Len(dir) :
          /\ <<dir[i].project, dir[i].stem>> \in Listed
          /\ Cardinality(MalformedLines(dir[i].file)) = 2
          /\ Len(dir[i].file.lines) = 3
    /\ summaries[1].user_messages + summaries[1].assistant_messages
          + summaries[1].other_records = 1

----------------------------------------------------------------------------
(* Claims about the validation of the command line *)

\* the last command was given a zero where a positive value is required
ZeroWindow(hours, days) == hours = Some(0) \/ days = Some(0)
ExportZero ==
    /\ xpc # "idle"
    /\ \/ ZeroWindow(global.since_hours, global.since_days)
       \/ \E k \in 1..Len(xargs.indices) : xargs.indices[k] = 0
ShowZero ==
    /\ vpc # "idle"
    /\ \/ ZeroWindow(global.since_hours, global.since_days)
       \/ ParseUsize(vargs.target) = Some(0)
InventoryZero ==
    /\ tpc # "idle"
    /\ \/ ZeroWindow(targs.since_hours, targs.since_days)
       \/ ~targs.all /\ targs.latest = 0

\* C21: a zero for a threshold or limit that must be positive (--since-hours
\* 0, --since-days 0, export --index 0, a session target of 0, xtask --latest
\* 0) is rejected with an error before the command performs any file-system
\* operation (directory walk, glob, directory creation, file open).
C21_ZeroRejectedFirst ==
    /\ ExportZero => xpc = "err" /\ io = <<>>
    /\ ShowZero => vpc = "err" /\ io = <<>>
    /\ InventoryZero => tpc = "err" /\ io = <<>>

\* the part of C21 that holds: the zero thresholds of cc-convo's time window,
\* and --latest 0 of the xtask, are rejected before any operation
C21_WindowZeroRejectedFirst ==
    /\ (xpc # "idle" /\ ZeroWindow(global.since_hours, global.since_days))
          => xpc = "err" /\ io = <<>>
    /\ (vpc # "idle" /\ ZeroWindow(global.since_hours, global.since_days))
          => vpc = "err" /\ io = <<>>
    /\ (tpc # "idle" /\ ~targs.all /\ targs.latest = 0) => tpc = "err" /\ io = <<>>

\* an export with --index 0 alone, over a directory with a session: rejected,
\* after the directory walk
C21_Witness ==
    /\ xpc = "err"
    /\ xargs.indices = <<0>>
    /\ xargs.sessions = <<>>
    /\ dir # <<>>
    /\ io = <<"walk">>

----------------------------------------------------------------------------
(* Claims about the selection of the sessions to export *)

\* the export got past the time window and ran its selection
Selecting == xpc # "idle" /\ TimeWindowFromGlobal(global).status = "ok"

\* the smart search --search runs over the discovered sessions
SelectorSearch ==
    SearchSessions(dir, discovered,
                   SearchArgs(xargs.search[1], "smart", "both", FALSE, 2147483647, 150))

\* the selectors of the export name no session
NoneNamed ==
    /\ xargs.sessions = <<>>
    /\ xargs.indices = <<>>
    /\ xargs.recent = None \/ xargs.recent = Some(0) \/ discovered = <<>>
    /\ ~xargs.all \/ discovered = <<>>
    /\ xargs.search = None \/ SelectorSearch.hits = <<>>

\* C22: an export whose selectors resolve to no session (no selection flag,
\* --recent 0, --search with no hits, --all over an empty session list) ends
\* with an error, the output directory not created and no export file
\* written.
C22_EmptySelectionAborts ==
    (Selecting /\ NoneNamed) =>
        /\ xpc = "err"
        /\ \A k \in 1..Len(io) : io[k] \notin {"mkdir", "write"}
        /\ bodies = <<>>
        /\ output_files = <<>>

\* an export with --search alone, whose search read every session of a
\* directory of two and found no hit
C22_Witness ==
    /\ Selecting
    /\ NoneNamed
    /\ xargs.search # None
    /\ SelectorSearch.status = "ok"
    /\ Len(discovered) = 2
    /\ io = <<"walk", "open", "open">>
    /\ xpc = "err"

----------------------------------------------------------------------------
(* Claims about the session list *)

\* discover_sessions ran in the last command
Discovering ==
    (xpc # "idle" \/ vpc # "idle") /\ TimeWindowFromGlobal(global).status = "ok"

\* a is before b in the order of strings: a proper prefix of b, or smaller at
\* the first character that differs
StrBefore(a, b) ==
    \E k \in 1..(Len(b)) :
        /\ \A j \in 1..(k - 1) : j <= Len(a) /\ a[j] = b[j]
        /\ k = Len(a) + 1 \/ (k <= Len(a) /\ Code(a[k]) < Code(b[k]))

\* paths are compared by component: the project directory, then the file
PathBefore(a, b) == StrBefore(a[1], b[1]) \/ (a[1] = b[1] /\ StrBefore(a[2], b[2]))

\* the files of the directory the time window keeps
InWindow ==
    {i \in 1..Len(dir) :
        \/ TimeWindowFromGlobal(global).since = None
        \/ dir[i].mtime >= TimeWindowFromGlobal(global).since[1]}

\* C23: after discover_sessions the session list is sorted by descending
\* modification epoch, ties broken by ascending path, and the session at the
\* 1-based position i has index i: the indices are 1..n without gap or
\* duplicate.  The list holds the session files found, each once.
C23_SortedAndIndexed ==
    Discovering =>
        /\ \A i \in 1..Len(discovered) : discovered[i].index = i
        /\ \A i, j \in 1..Len(discovered) :
              i < j =>
                  \/ discovered[i].modified_epoch > discovered[j].modified_epoch
                  \/ /\ discovered[i].modified_epoch = discovered[j].modified_epoch
                     /\ PathBefore(discovered[i].path, discovered[j].path)
        /\ Len(discovered) = Cardinality(InWindow)
        /\ {discovered[i].path : i \in 1..Len(discovered)}
              = {<<dir[i].project, dir[i].stem>> : i \in InWindow}

\* two sessions modified in the same second, which the directory walk yielded
\* in the descending order of their paths
C23_Witness ==
    /\ Discovering
    /\ Len(discovered) = 2
    /\ discovered[1].modified_epoch = discovered[2].modified_epoch
    /\ discovered[1].path = <<dir[2].project, dir[2].stem>>
    /\ discovered[2].path = <<dir[1].project, dir[1].stem>>
    /\ discovered[2].index = 2

----------------------------------------------------------------------------
(* Claims about the context preview; the directory holds one session of    *)
(* one event                                                               *)

\* the text of the event the search looked at
TheText == Parsed(1).events[1].content

\* the query occurs in the text, both folded unless the search is case
\* sensitive
QueryOccurs == Starts(Folded(TheText), Folded(args.query)) # {}

\* the position of the first occurrence, from 0
FirstAt ==
    (CHOOSE i \in Starts(Folded(TheText), Folded(args.query)) :
         \A j \in Starts(Folded(TheText), Folded(args.query)) : i <= j) - 1

WindowStart == IF FirstAt >= args.context_chars THEN FirstAt - args.context_chars ELSE 0
WindowEnd ==
    IF FirstAt + Len(args.query) + args.context_chars <= Len(TheText)
    THEN FirstAt + Len(args.query) + args.context_chars ELSE Len(TheText)

NoNewlines(s) == [i \in 1..Len(s) |-> IF s[i] = "\n" THEN " " ELSE s[i]]

\* the window around the first occurrence, marked where it is cut
WindowPreview ==
    NoNewlines((IF WindowStart > 0 THEN <<".", ".", ".">> ELSE <<>>)
                   \o SubSeq(TheText, WindowStart + 1, WindowEnd)
                   \o (IF WindowEnd < Len(TheText) THEN <<".", ".", ".">> ELSE <<>>))

\* C24: when the (case-folded) query occurs in the event text at the first
\* position p, the preview is the slice of the text from max(0, p -
\* context_chars) to min(len, p + |query| + context_chars), with "..." before
\* it iff the slice starts after position 0 and "..." after it iff it ends
\* before the end of the text, every newline replaced by a space; the preview
\* holds the matched occurrence and no newline.
C24_WindowPreview ==
    (spc = "ok" /\ QueryOccurs) =>
        \A i \in 1..Len(hits) :
            /\ hits[i].preview = WindowPreview
            /\ Starts(IF args.case_sensitive THEN hits[i].preview
                      ELSE ToLowercase(hits[i].preview),
                      Folded(args.query)) # {}
            /\ \A k \in 1..Len(hits[i].preview) : hits[i].preview[k] # "\n"

\* a search for "alpha" with two characters of context hit a text that
\* starts with two two-byte characters: the window would start inside the
\* second of them, and the preview is the whole text between two markers
C24_Witness ==
    /\ spc = "ok"
    /\ QueryOccurs
    /\ args.context_chars = 2
    /\ Len(hits) = 1
    /\ TheText[1] = "e_acute"
    /\ TheText[2] = "e_acute"
    /\ hits[1].preview = <<".", ".", ".">> \o TheText \o <<".", ".", ".">>
    /\ hits[1].preview # WindowPreview

\* Where every character of the text is one byte, the preview is the window
\* of C24.
C24_AsciiWindowPreview ==
    (spc = "ok" /\ QueryOccurs /\ \A k \in 1..Len(TheText) : Width(TheText[k]) = 1) =>
        \A i \in 1..Len(hits) : hits[i].preview = WindowPreview

\* a search ran whose pattern compiles, and the query does not occur in the
\* text: a preview, if one is due, is the fallback
FallbackDue ==
    /\ spc # "idle"
    /\ ~(args.mode = "regex" /\ ~RegexCompiles(args.query))
    /\ ~QueryOccurs

\* the first 2 * context_chars characters and a marker, or the text if it is
\* no longer than that
FallbackPreview ==
    IF Len(TheText) <= 2 * args.context_chars THEN NoNewlines(TheText)
    ELSE NoNewlines(SubSeq(TheText, 1, 2 * args.context_chars)) \o <<".", ".", ".">>

\* C25: when the query does not occur in the event text, the preview is the
\* text with its newlines replaced by spaces if it is at most 2 *
\* context_chars long, and else the first 2 * context_chars characters of it
\* followed by "..."; the fallback preview is at most 2 * context_chars + 3
\* characters long.
C25_FallbackPreview ==
    FallbackDue =>
        /\ spc = "ok"
        /\ \A i \in 1..Len(hits) :
              /\ hits[i].preview = FallbackPreview
              /\ Len(hits[i].preview) <= 2 * args.context_chars + 3

\* a smart search for "gamma alpha" with two characters of context matched,
\* by the word "gamma", a text that starts with a two-byte character: the
\* fallback cuts the text after its first byte, and the search panicked
C25_Witness ==
    /\ FallbackDue
    /\ args.mode = "smart"
    /\ args.context_chars = 2
    /\ TheText[1] = "e_acute"
    /\ spc = "panic"

\* What the fallback gives where every character of the text is one byte and
\* context_chars is 2 or more: the text, or its first 2 * context_chars - 3
\* characters and the marker, 2 * context_chars characters in all.
C25_AsciiFallbackPreview ==
    (/\ FallbackDue
     /\ args.context_chars >= 2
     /\ \A k \in 1..Len(TheText) : Width(TheText[k]) = 1) =>
        /\ spc = "ok"
        /\ \A i \in 1..Len(hits) :
              /\ hits[i].preview =
                    IF Len(TheText) <= 2 * args.context_chars THEN NoNewlines(TheText)
                    ELSE NoNewlines(SubSeq(TheText, 1, 2 * args.context_chars - 3))
                             \o <<".", ".", ".">>
              /\ Len(hits[i].preview) <= 2 * args.context_chars

\* C26: for every cap the program passes to the bounded-string helper (1200,
\* 500, 300, 140, 120, and 2 * context_chars for any context_chars of the
\* user) the result never exceeds the cap: the input is returned unchanged
\* when its length is at most the cap, and else the result is a prefix of
\* the input followed by "..." whose total length equals the cap.  Here for
\* the cap 2 * context_chars of the fallback preview, lengths in bytes.
C26_NeverOverCap ==
    FallbackDue =>
        /\ spc = "ok"
        /\ \A i \in 1..Len(hits) :
              /\ ByteLen(hits[i].preview) <= 2 * args.context_chars
              /\ ByteLen(TheText) <= 2 * args.context_chars
                    => hits[i].preview = NoNewlines(TheText)
              /\ ByteLen(TheText) > 2 * args.context_chars
                    => /\ ByteLen(hits[i].preview) = 2 * args.context_chars
                       /\ \E n \in 0..Len(TheText) :
                             hits[i].preview
                                 = NoNewlines(SubSeq(TheText, 1, n)) \o <<".", ".", ".">>

\* a search with one character of context matched a text of more than two
\* bytes in which the query does not occur: the preview is the marker alone,
\* three bytes for a cap of two
C26_Witness ==
    /\ FallbackDue
    /\ spc = "ok"
    /\ args.context_chars = 1
    /\ Len(hits) = 1
    /\ ByteLen(TheText) > 2
    /\ hits[1].preview = <<".", ".", ".">>

\* the number of tokens of the folded query
TokenCount == Cardinality(TokenSpans(Folded(args.query)))

\* the whole folded query occurs in the folded text of the event
WholeIn(e) == WholeFound(Folded(e.content), Folded(args.query)) = 1

\* the number of tokens of the folded query that occur in the folded text
OverlapIn(e) == TokensFound(Folded(e.content), Folded(args.query))

\* 0.4 * k / n > 0.15, in exact arithmetic
PartialAbove(k, n) == n > 0 /\ 8 * k > 3 * n

\* 1.0 with the whole query and a token, 0.6 with the whole query and no
\* token, 0.4 * k / n without the whole query
ThreeWayScore(e) ==
    IF WholeIn(e) THEN (IF TokenCount > 0 THEN Scale ELSE 6 * Tenth)
    ELSE IF TokenCount > 0 THEN (4 * Tenth * OverlapIn(e)) \div TokenCount
    ELSE 0

ThreeWayScores(session) ==
    LET found == SelectSeq(Searched(session),
                           LAMBDA e : WholeIn(e) \/ PartialAbove(OverlapIn(e), TokenCount))
    IN  [i \in 1..Len(found) |-> ThreeWayScore(found[i])]

\* every token of the query occurs in each event that has the whole query
WholeHasEveryToken ==
    \A i \in 1..Len(DiscoverSessions(dir)) :
        \A j \in 1..Len(Searched(DiscoverSessions(dir)[i])) :
            WholeIn(Searched(DiscoverSessions(dir)[i])[j])
                => OverlapIn(Searched(DiscoverSessions(dir)[i])[j]) = TokenCount

\* no event that the search looks at has 3 of every 8 tokens without the whole query
NoneAtThreshold ==
    \A i \in 1..Len(DiscoverSessions(dir)) :
        \A j \in 1..Len(Searched(DiscoverSessions(dir)[i])) :
            ~AtThreshold(Searched(DiscoverSessions(dir)[i])[j])

\* C27: in smart mode an event whose text has the whole query, for a query of
\* at least one token, has every token too and scores exactly 1.0; so the
\* scores of the hits are 1.0, 0.6 (a query of no token) or 0.4 * k / n for
\* an overlap of k of n tokens, and an event with a partial overlap is a hit
\* only when 0.4 * k / n > 0.15.
C27_ThreeWayScores ==
    (spc = "ok" /\ args.mode = "smart") =>
        /\ WholeHasEveryToken
        /\ \A i \in 1..Len(DiscoverSessions(dir)) :
              HitScores(DiscoverSessions(dir)[i]) = ThreeWayScores(DiscoverSessions(dir)[i])

\* a smart search for a query of 8 tokens returned one hit of relevance
\* 0.15: an event with 3 of the tokens and without the whole query
C27_Witness ==
    /\ spc = "ok"
    /\ args.mode = "smart"
    /\ TokenCount = 8
    /\ Len(hits) = 1
    /\ hits[1].relevance * 20 = 3 * Scale
    /\ \E j \in 1..Len(Searched(DiscoverSessions(dir)[1])) :
          /\ ~WholeIn(Searched(DiscoverSessions(dir)[1])[j])
          /\ OverlapIn(Searched(DiscoverSessions(dir)[1])[j]) = 3
          /\ ~PartialAbove(3, 8)

\* the three-way scores, of the searches where no event has 3 of every 8
\* tokens without the whole query
C27_ThreeWayScoresOffThreshold ==
    (spc = "ok" /\ args.mode = "smart" /\ NoneAtThreshold) =>
        /\ WholeHasEveryToken
        /\ \A i \in 1..Len(DiscoverSessions(dir)) :
              HitScores(DiscoverSessions(dir)[i]) = ThreeWayScores(DiscoverSessions(dir)[i])

----------------------------------------------------------------------------
(* Claims about the sessions an export selects and the files it writes *)

\* select_sessions_for_export returned a selection: the export went on to
\* create the output directory
SelectionOk == \E k \in 1..Len(io) : io[k] = "mkdir"

\* the session at position i of the session list is named by a selector of
\* the export: it is the session of a --session value, at an --index,
\* among the --recent first, any session with --all, or a session with a hit
\* of the --search
NamedBySelector(i) ==
    \/ \E k \in 1..Len(xargs.sessions) :
          /\ discovered[i].id = xargs.sessions[k] \/ discovered[i].id_short = xargs.sessions[k]
          /\ \A j \in 1..(i - 1) :
                ~(discovered[j].id = xargs.sessions[k]
                  \/ discovered[j].id_short = xargs.sessions[k])
    \/ \E k \in 1..Len(xargs.indices) : xargs.indices[k] = i
    \/ xargs.recent # None /\ i <= xargs.recent[1]
    \/ xargs.all
    \/ /\ xargs.search # None
       /\ \E h \in 1..Len(SelectorSearch.hits) :
             SelectorSearch.hits[h].path = discovered[i].path

\* a --session value that no session has, or an --index after the last session
UnknownNamed ==
    \/ \E k \in 1..Len(xargs.sessions) :
          \A j \in 1..Len(discovered) :
              discovered[j].id # xargs.sessions[k] /\ discovered[j].id_short # xargs.sessions[k]
    \/ \E k \in 1..Len(xargs.indices) : xargs.indices[k] > Len(discovered)

\* the selection is a non-empty list of discovered sessions, no two with the
\* same id, in ascending index order
WellFormedSelection ==
    /\ selection # <<>>
    /\ \A k \in 1..Len(selection) :
          \E j \in 1..Len(discovered) : selection[k] = discovered[j]
    /\ \A k, j \in 1..Len(selection) :
          k < j => /\ selection[k].id # selection[j].id
                   /\ selection[k].index < selection[j].index

\* the unknown --session value and the --index after the last session are
\* errors, with no selection
UnknownIsError ==
    UnknownNamed => ~SelectionOk /\ selection = <<>> /\ xpc = "err"

\* C28: for any combination of --session, --index, --recent, --all and
\* --search, a successful select_sessions_for_export returns a non-empty
\* list of discovered sessions that has no two sessions with the same id,
\* has every session named by a selector, and is sorted by ascending index
\* whatever the order of the selectors; an unknown --session value or an
\* --index greater than the number of sessions is an error with no
\* selection.
C28_SelectionComplete ==
    Selecting =>
        /\ SelectionOk =>
              /\ WellFormedSelection
              /\ \A i \in 1..Len(discovered) :
                    NamedBySelector(i)
                        => \E k \in 1..Len(selection) :
                              selection[k] = discovered[i]
        /\ UnknownIsError

\* an export --all over two session files of the same name in two project
\* directories selected the first of them only
C28_Witness ==
    /\ Selecting
    /\ xargs.all
    /\ SelectionOk
    /\ Len(discovered) = 2
    /\ discovered[1].id = discovered[2].id
    /\ discovered[1].path # discovered[2].path
    /\ selection = <<discovered[1]>>

\* the ids of the discovered sessions are distinct
DistinctIds ==
    \A i, j \in 1..Len(discovered) : i < j => discovered[i].id # discovered[j].id

\* the selection of an export over sessions of distinct ids
C28_SelectionCompleteDistinctIds ==
    (Selecting /\ DistinctIds) =>
        /\ SelectionOk =>
              /\ WellFormedSelection
              /\ \A i \in 1..Len(discovered) :
                    NamedBySelector(i)
                        => \E k \in 1..Len(selection) :
                              selection[k] = discovered[i]
        /\ UnknownIsError

\* the selection of an export is well formed, and the unknown names are errors
C28_SelectionWellFormed ==
    Selecting =>
        /\ SelectionOk => WellFormedSelection
        /\ UnknownIsError

\* a per-session export that ended without error
ExportedPerSession == Selecting /\ xpc = "ok" /\ ~xargs.single_file

\* the content of the file at the path the k-th write returned: the body of
\* the last write to that path
FileAfterExport(k) ==
    bodies[CHOOSE j \in 1..Len(output_files) :
               /\ output_files[j] = output_files[k]
               /\ \A m \in (j + 1)..Len(output_files) : output_files[m] # output_files[k]]

\* each selected session has a path, and the file there is its document
EachHasItsFile ==
    /\ Len(output_files) = Len(selection)
    /\ Len(bodies) = Len(selection)
    /\ \A k \in 1..Len(selection) :
          /\ docs[k].session_id = selection[k].id
          /\ FileAfterExport(k) = WriteSingleExport(docs[k], xargs.format)

\* C29: in per-session export mode each of the k distinct selected sessions
\* is written to its own file: after a successful export the k returned
\* paths are pairwise distinct, and the file at each path holds the document
\* of the session the path was returned for; no export is overwritten by a
\* later session of the run.
C29_OwnFilePerSession ==
    ExportedPerSession =>
        /\ \A k, j \in 1..Len(output_files) : k < j => output_files[k] # output_files[j]
        /\ EachHasItsFile

\* an export of two sessions of distinct ids, with the same first eight
\* characters and modified on the same day, returned one path twice: the
\* file holds the document of the second session
C29_Witness ==
    /\ ExportedPerSession
    /\ Len(selection) = 2
    /\ selection[1].id # selection[2].id
    /\ selection[1].id_short = selection[2].id_short
    /\ Len(output_files) = 2
    /\ output_files[1] = output_files[2]
    /\ FileAfterExport(1) = WriteSingleExport(docs[2], xargs.format)
    /\ FileAfterExport(1) # WriteSingleExport(docs[1], xargs.format)

\* no two selected sessions have the same short id and the same date of
\* modification
DistinctFileNames ==
    \A k, j \in 1..Len(selection) :
        k < j => \/ selection[k].id_short # selection[j].id_short
                 \/ DateOf(selection[k].modified_iso) # DateOf(selection[j].modified_iso)

\* the files of a per-session export whose sessions differ in short id or date
C29_OwnFilePerSessionDistinctNames ==
    (ExportedPerSession /\ DistinctFileNames) =>
        /\ \A k, j \in 1..Len(output_files) : k < j => output_files[k] # output_files[j]
        /\ EachHasItsFile

\* a single-file export whose selection succeeded
Bundling == Selecting /\ xargs.single_file /\ SelectionOk

\* the parse of the k-th selected session
SelectedParse(k) == ParseSessionEvents(FileAt(dir, selection[k].path), xargs.detailed)

\* the number of writes of export files
Writes == Cardinality({k \in 1..Len(io) : io[k] = "write"})

\* the position in io of the last File::open, 0 if there is none
LastOpen ==
    IF \E k \in 1..Len(io) : io[k] = "open"
    THEN CHOOSE k \in 1..Len(io) : io[k] = "open" /\ \A j \in (k + 1)..Len(io) : io[j] # "open"
    ELSE 0

\* C30: in single-file export mode the bundle is written exactly once, and
\* only after every selected session was parsed without error; it holds one
\* document per selected session, in ascending index order.  If the parse
\* of a selected session fails, the command ends with the error and no
\* export file is written.
C30_BundleWrittenOnceAtEnd ==
    Bundling =>
        IF \A k \in 1..Len(selection) : SelectedParse(k).status = "ok"
        THEN /\ xpc = "ok"
             /\ Writes = 1
             /\ io[Len(io)] = "write"
             /\ LastOpen = Len(io) - 1
             /\ Cardinality({k \in 1..Len(io) : io[k] = "open" /\ k > Len(io) - 1 - Len(selection)})
                   = Len(selection)
             /\ Len(docs) = Len(selection)
             /\ \A k \in 1..Len(selection) :
                   docs[k] = BuildExportDocument(selection[k], SelectedParse(k).events)
             /\ \A k, j \in 1..Len(selection) :
                   k < j => selection[k].index < selection[j].index
             /\ bodies = <<WriteBundleExport(docs, xargs.format)>>
             /\ output_files = <<BundleExportPath(xargs.format)>>
        ELSE /\ xpc # "ok"
             /\ Writes = 0
             /\ bodies = <<>>
             /\ output_files = <<>>

\* a single-file export of two sessions parsed both, then wrote the bundle
C30_Witness ==
    /\ Bundling
    /\ xpc = "ok"
    /\ Len(selection) = 2
    /\ io = <<"walk", "mkdir", "open", "open", "write">>
    /\ Len(docs) = 2
    /\ Len(bodies) = 1

\* a single-file export of two sessions ended with the error of the
\* second parse: the directory was made, no file was written
C30_FailedParse ==
    /\ Bundling
    /\ xpc # "ok"
    /\ Len(selection) = 2
    /\ SelectedParse(1).status = "ok"
    /\ SelectedParse(2).status # "ok"
    /\ io = <<"walk", "mkdir", "open", "open">>
    /\ bodies = <<>>

====
